---- MODULE Spec2Model ----
(***************************************************************************)
(* Model of the genetic evolution engine, the genome operations and the    *)
(* gallery of FractalCreator (src/FractalCreator/src/evolution).           *)
(*                                                                         *)
(* Numbers: every float of the source is modelled as an integer count of   *)
(* thousandths (0.355f is 355, a mutation rate of 0.05f is 50, a global    *)
(* mutation rate of 5.0f is 5000, a fitness of 0.9f is 900).               *)
(***************************************************************************)
EXTENDS Integers, Sequences, FiniteSets, TLC

VARIABLES
    gA,          \* SpecGenome: the genome the operations are applied to
    gB,          \* SpecGenome: the second genome (other parent / other genome)
    gRes,        \* SpecGenome: the last operation applied and what it returned
    m_entries,   \* FractalGallery::m_entries
    galRes,      \* SpecGallery: the last gallery call, its arguments and result
    m_params,           \* GeneticEvolutionEngine::m_params
    m_population,       \* GeneticEvolutionEngine::m_population
    m_running,          \* std::atomic<bool> m_running
    m_paused,           \* std::atomic<bool> m_paused
    m_evolutionThread,  \* 0: null; t > 0: joinable std::thread of worker t;
                        \* -1: a std::thread that has been joined
    m_populationMutex,  \* "free" or the thread that holds m_populationMutex
    m_stats,            \* GeneticEvolutionEngine::m_stats
    threads,            \* per worker thread: its position in EvolutionLoop and locals
    callerPc,           \* position of the calling (foreground) thread
    callerRet,          \* the value a read accessor is returning to the caller
    fitnessMemo,        \* the values EvaluateFitness has returned, per gene vector
    crashed,            \* the process was terminated (std::terminate or a trap)
    m_generationCallback,  \* whether a generation callback is registered
    m_bestFoundCallback,   \* whether a best-found callback is registered
    cbLog,              \* what the callbacks have been invoked with, whether
                        \* the last UpdateStats invoked the best-found one, and
                        \* how many times GenerateOffspring replaced the population
    lastCall,           \* the last of Initialize, StartEvolution and
                        \* StopEvolution to have returned
    fractal,            \* SpecFractal: the members of a DeformableFractal
    fracRes,            \* SpecFractal: the last evaluation, its point and result
    m_entriesMutex,     \* SpecGalleryThreads: the thread holding m_entriesMutex, or 0
    galThreads,         \* SpecGalleryThreads: each thread's position in its gallery call
    offRes,             \* SpecOffspring: the last selection or GenerateOffspring call
    applyRes            \* SpecApply: the configurations and the genome that
                        \* ApplyToFractal and ExtractFromFractal have produced

genomeVars == <<gA, gB, gRes>>
callbackVars == <<m_generationCallback, m_bestFoundCallback, cbLog>>
galleryVars == <<m_entries, galRes>>
fractalVars == <<fractal, fracRes>>
galleryThreadVars == <<m_entriesMutex, galThreads>>
offspringVars == <<offRes>>
applyVars == <<applyRes>>
pureVars == <<offspringVars, applyVars>>
otherVars == <<fractalVars, galleryThreadVars, pureVars>>
engineVars ==
    <<m_params, m_population, m_running, m_paused, m_evolutionThread,
      m_populationMutex, m_stats, threads, callerPc, callerRet, fitnessMemo,
      crashed, m_generationCallback, m_bestFoundCallback, cbLog, lastCall>>

vars ==
    <<gA, gB, gRes, m_entries, galRes,
      m_params, m_population, m_running, m_paused, m_evolutionThread,
      m_populationMutex, m_stats, threads, callerPc, callerRet, fitnessMemo,
      crashed, m_generationCallback, m_bestFoundCallback, cbLog, lastCall,
      fractal, fracRes, m_entriesMutex, galThreads, offRes, applyRes>>

-----------------------------------------------------------------------------
(* Bounds of the model.                                                    *)

\* Number of genes (a prefix of DrawOrder) whose random draws are enumerated
\* in SpecGenome; every other gene receives NeutralDraw.
GenomeDrawGenes == 2

-----------------------------------------------------------------------------
(* FractalGenome: GeneticEvolutionEngine.h                                 *)

\* The 19 genes in the order Mutate and Crossover visit them.
GeneOrder ==
    << "juliaReal", "juliaImag", "escapeThreshold",
       "angleA", "freqA", "phaseA", "functionA", "edgeGlowA", "edgeHueShiftA",
       "angleB", "freqB", "phaseB", "functionB", "edgeGlowB", "edgeHueShiftB",
       "functionBlend", "deformMix", "shift", "edgeSaturation" >>

GeneNames == { GeneOrder[i] : i \in 1..Len(GeneOrder) }

\* Gene(v, rate, minVal, maxVal)
Gene(v, rate, minVal, maxVal) ==
    [value |-> v, mutationRate |-> rate, min |-> minVal, max |-> maxVal]

\* The default member initialisers of FractalGenome.
DefaultGene(name) ==
    CASE name = "juliaReal"       -> Gene(355, 50, -2000, 2000)
      [] name = "juliaImag"       -> Gene(355, 50, -2000, 2000)
      [] name = "escapeThreshold" -> Gene(4000, 20, 2000, 10000)
      [] name = "angleA"          -> Gene(0, 100, -3142, 3142)
      [] name = "freqA"           -> Gene(1000, 80, 100, 3000)
      [] name = "phaseA"          -> Gene(0, 100, -3142, 3142)
      [] name = "functionA"       -> Gene(0, 300, 0, 10000)
      [] name = "edgeGlowA"       -> Gene(1000, 50, 100, 2000)
      [] name = "edgeHueShiftA"   -> Gene(1000, 50, 100, 2000)
      [] name = "angleB"          -> Gene(0, 100, -3142, 3142)
      [] name = "freqB"           -> Gene(1000, 80, 100, 3000)
      [] name = "phaseB"          -> Gene(0, 100, -3142, 3142)
      [] name = "functionB"       -> Gene(1000, 300, 0, 10000)
      [] name = "edgeGlowB"       -> Gene(1000, 50, 100, 2000)
      [] name = "edgeHueShiftB"   -> Gene(1000, 50, 100, 2000)
      [] name = "functionBlend"   -> Gene(0, 30, 0, 1000)
      [] name = "deformMix"       -> Gene(0, 30, 0, 1000)
      [] name = "shift"           -> Gene(0, 50, -2000, 2000)
      [] name = "edgeSaturation"  -> Gene(1000, 20, 0, 2000)

\* A default-constructed FractalGenome.
FractalGenome ==
    [genes      |-> [n \in GeneNames |-> DefaultGene(n)],
     fitness    |-> 0,
     generation |-> 0,
     age        |-> 0,
     parentIDs  |-> << >>]

\* std::clamp(v, lo, hi)
Clamp(v, lo, hi) == IF v < lo THEN lo ELSE IF hi < v THEN hi ELSE v

\* std::abs
Abs(x) == IF x < 0 THEN -x ELSE x

-----------------------------------------------------------------------------
(* Random draws.  One call of Mutate consumes, per gene, a uniform draw u  *)
(* in [0,1) and, when the gene mutates, a normal draw n; one call of       *)
(* Crossover consumes one uniform draw per gene.  A draw vector gives      *)
(* every gene its draws.                                                   *)

\* The normal draws enumerated: one that stays inside every gene's range
\* from its default, and two larger than every range (max - min <= 20000).
NoiseVals == {-25000, 100, 25000}

\* The uniform draws enumerated: the least value and one just below 1.
UniformVals == {0, 999}

\* The draw given to the genes whose draws are not enumerated.
NeutralDraw == [u |-> 999, n |-> 0]

\* The order in which genes join the enumerated ones: a function selector
\* (a structural gene), a gene CalculateDistance skips, then the rest.
DrawOrder ==
    << "functionA", "edgeSaturation", "juliaReal", "functionB", "deformMix",
       "juliaImag", "escapeThreshold", "angleA", "freqA", "phaseA",
       "edgeGlowA", "edgeHueShiftA", "angleB", "freqB", "phaseB",
       "edgeGlowB", "edgeHueShiftB", "functionBlend", "shift" >>

DrawGenes(k) == { DrawOrder[i] : i \in 1..k }

DrawChoices == { [u |-> 0, n |-> x] : x \in NoiseVals } \cup {NeutralDraw}

\* All draw vectors that enumerate the draws of the first k genes of DrawOrder.
DrawVectors(k) ==
    { [n \in GeneNames |-> IF n \in DrawGenes(k) THEN f[n] ELSE NeutralDraw] :
        f \in [DrawGenes(k) -> DrawChoices] }

\* All vectors of uniform draws for Crossover, enumerated for the same genes.
PickVectors(k) ==
    { [n \in GeneNames |-> IF n \in DrawGenes(k) THEN f[n] ELSE NeutralDraw.u] :
        f \in [DrawGenes(k) -> UniformVals] }

-----------------------------------------------------------------------------
(* FractalGenome::Mutate, GeneticEvolutionEngine.cpp:78-110                *)

\* mutant: the noise is added without the clamp
mutateGene_NoClamp(gene, d, globalMutationRate) ==
    IF d.u * 1000 < gene.mutationRate * globalMutationRate
    THEN [gene EXCEPT !.value = gene.value + d.n]
    ELSE gene

\* the lambda mutateGene; the standard deviation only scales the draw d.n
mutateGene(gene, d, globalMutationRate) ==
    IF d.u * 1000 < gene.mutationRate * globalMutationRate
    THEN [gene EXCEPT !.value = Clamp(gene.value + d.n, gene.min, gene.max)]
    ELSE gene

Mutate(genome, draws, globalMutationRate) ==
    [genome EXCEPT
        !.genes = [n \in GeneNames |->
                      mutateGene(genome.genes[n], draws[n], globalMutationRate)]]

(* FractalGenome::Crossover, GeneticEvolutionEngine.cpp:112-153            *)

\* mutant: the child keeps the first parent's rate
crossoverGene_KeepRate(gene1, gene2, u) ==
    [gene1 EXCEPT !.value = IF u < 500 THEN gene2.value ELSE gene1.value]

\* the lambda crossoverGene; rates are even counts of thousandths in every
\* genome the model builds, so the halving is exact as it is in float
crossoverGene(gene1, gene2, u) ==
    [gene1 EXCEPT
        !.value = IF u < 500 THEN gene2.value ELSE gene1.value,
        !.mutationRate = (gene1.mutationRate + gene2.mutationRate) \div 2]

Crossover(parent1, parent2, picks) ==
    [FractalGenome EXCEPT
        !.genes = [n \in GeneNames |->
                      crossoverGene(parent1.genes[n], parent2.genes[n], picks[n])],
        !.parentIDs = <<parent1.generation, parent2.generation>>]

(* FractalGenome::CalculateDistance, GeneticEvolutionEngine.cpp:155-173    *)

\* mutant: the function selector of state A is compared without std::abs
CalculateDistance_SignedTerm(self, other) ==
      Abs(self.genes["juliaReal"].value - other.genes["juliaReal"].value)
    + Abs(self.genes["juliaImag"].value - other.genes["juliaImag"].value)
    + Abs(self.genes["escapeThreshold"].value - other.genes["escapeThreshold"].value)
    + Abs(self.genes["angleA"].value - other.genes["angleA"].value)
    + Abs(self.genes["freqA"].value - other.genes["freqA"].value)
    + Abs(self.genes["phaseA"].value - other.genes["phaseA"].value)
    + (self.genes["functionA"].value - other.genes["functionA"].value)
    + Abs(self.genes["angleB"].value - other.genes["angleB"].value)
    + Abs(self.genes["freqB"].value - other.genes["freqB"].value)
    + Abs(self.genes["phaseB"].value - other.genes["phaseB"].value)
    + Abs(self.genes["functionB"].value - other.genes["functionB"].value)

CalculateDistance(self, other) ==
      Abs(self.genes["juliaReal"].value - other.genes["juliaReal"].value)
    + Abs(self.genes["juliaImag"].value - other.genes["juliaImag"].value)
    + Abs(self.genes["escapeThreshold"].value - other.genes["escapeThreshold"].value)
    + Abs(self.genes["angleA"].value - other.genes["angleA"].value)
    + Abs(self.genes["freqA"].value - other.genes["freqA"].value)
    + Abs(self.genes["phaseA"].value - other.genes["phaseA"].value)
    + Abs(self.genes["functionA"].value - other.genes["functionA"].value)
    + Abs(self.genes["angleB"].value - other.genes["angleB"].value)
    + Abs(self.genes["freqB"].value - other.genes["freqB"].value)
    + Abs(self.genes["phaseB"].value - other.genes["phaseB"].value)
    + Abs(self.genes["functionB"].value - other.genes["functionB"].value)

-----------------------------------------------------------------------------
(* SpecGenome: one genome operation applied to genomes drawn from a        *)
(* bounded set (gRes.op = "none" until the operation has been applied).    *)

\* The global mutation rates tried: none, EvolutionParameters::mutationRate
\* (0.15f) and the 5.0f of InitializeRandomPopulation.
GlobalRates == {0, 150, 5000}

PickValue(gene, which) ==
    CASE which = "min" -> gene.min
      [] which = "max" -> gene.max
      [] OTHER         -> gene.value

\* Input genomes, every gene within its bounds: an enumerated gene takes one
\* of the values named in `values`, with its default mutation rate or (all
\* enumerated genes together, when `rates` allows it) the rate 0.5f; the
\* other genes are the defaults.
InputGenomes(k, values, rates) ==
    { [FractalGenome EXCEPT
          !.genes = [n \in GeneNames |->
                        IF n \in DrawGenes(k)
                        THEN [DefaultGene(n) EXCEPT
                                 !.value = PickValue(DefaultGene(n), f[n]),
                                 !.mutationRate =
                                     IF r THEN 500 ELSE DefaultGene(n).mutationRate]
                        ELSE DefaultGene(n)]] :
        f \in [DrawGenes(k) -> values], r \in rates }

NoResult ==
    [op |-> "none", p1 |-> FractalGenome, p2 |-> FractalGenome,
     genome |-> FractalGenome, picks |-> [n \in GeneNames |-> 0], distance |-> 0]

NoCall == [op |-> "none", name |-> "", count |-> 0, result |-> << >>]

\* gA.Mutate(rng, rate) on a copy of gA
GMutate ==
    /\ gRes.op = "none"
    /\ \E rate \in GlobalRates, draws \in DrawVectors(GenomeDrawGenes) :
        /\ gRes' = [NoResult EXCEPT !.op = "Mutate", !.p1 = gA,
                                    !.genome = Mutate(gA, draws, rate)]
        /\ UNCHANGED <<gA, gB, galleryVars, engineVars, otherVars>>

\* FractalGenome::Crossover(gA, gB, rng)
GCrossover ==
    /\ gRes.op = "none"
    /\ \E picks \in PickVectors(GenomeDrawGenes) :
        /\ gRes' = [NoResult EXCEPT !.op = "Crossover", !.p1 = gA, !.p2 = gB,
                                    !.picks = picks,
                                    !.genome = Crossover(gA, gB, picks)]
        /\ UNCHANGED <<gA, gB, galleryVars, engineVars, otherVars>>

\* FractalGenome::Crossover(g, g, rng) for g one of the two genomes
GSelfCrossover ==
    /\ gRes.op = "none"
    /\ \E g \in {gA, gB}, picks \in PickVectors(GenomeDrawGenes) :
        /\ gRes' = [NoResult EXCEPT !.op = "Crossover", !.p1 = g, !.p2 = g,
                                    !.picks = picks,
                                    !.genome = Crossover(g, g, picks)]
        /\ UNCHANGED <<gA, gB, galleryVars, engineVars, otherVars>>

\* x.CalculateDistance(y) for x, y among the two genomes
GDistance ==
    /\ gRes.op = "none"
    /\ \E x \in {gA, gB}, y \in {gA, gB} :
        /\ gRes' = [NoResult EXCEPT !.op = "CalculateDistance", !.p1 = x, !.p2 = y,
                                    !.distance = CalculateDistance(x, y)]
        /\ UNCHANGED <<gA, gB, galleryVars, engineVars, otherVars>>

GenomeNext == GMutate \/ GCrossover \/ GSelfCrossover \/ GDistance

-----------------------------------------------------------------------------
(* FractalGallery: GeneticEvolutionEngine.cpp:496-545.  Every operation    *)
(* modelled here runs under std::lock_guard on m_entriesMutex from its     *)
(* first statement to its return, so each is one atomic action.            *)

\* Entries the gallery is allowed to grow to in the model.
MaxEntries == 3

\* Arguments of AddFractal tried: genomes of two generations with two
\* fitness values (ties occur when one is added twice), the empty name and
\* a name equal to a generated one.
GalleryInputs ==
    { <<FractalGenome, 200>>, <<[FractalGenome EXCEPT !.generation = 1], 900>> }
GalleryNames == {"", "Fractal_1"}

\* Arguments of GetTopFractals tried.
TopCounts == {-1, 0, 1, 2, MaxEntries + 1}

\* GalleryEntry (creationTime, thumbnail, fitnessBreakdown and tags are
\* written by no modelled operation and read by none)
GalleryEntry(genome, fitness, name, description) ==
    [genome |-> genome, fitness |-> fitness, name |-> name,
     description |-> description, generation |-> genome.generation]

\* std::any_of(m_entries, e.name == uniqueName)
NameTaken(entries, uniqueName) ==
    \E i \in 1..Len(entries) : entries[i].name = uniqueName

\* the while loop of GenerateUniqueName, from its state (uniqueName, counter)
RECURSIVE UniqueNameLoop(_, _, _, _)
UniqueNameLoop(entries, baseName, uniqueName, counter) ==
    IF NameTaken(entries, uniqueName)
    THEN UniqueNameLoop(entries, baseName,
                        baseName \o "_" \o ToString(counter), counter + 1)
    ELSE uniqueName

\* mutant: the suffix is the number of entries, without looking for a collision
GenerateUniqueName_SizeSuffix(entries, baseName) ==
    IF entries = << >> THEN baseName
    ELSE baseName \o "_" \o ToString(Len(entries))

GenerateUniqueName(entries, baseName) ==
    UniqueNameLoop(entries, baseName, baseName, 1)

AddFractal(genome, fitness, name, description) ==
    /\ Len(m_entries) < MaxEntries
    /\ LET entryName == IF name = "" THEN GenerateUniqueName(m_entries, "Fractal")
                                     ELSE name
       IN m_entries' = Append(m_entries,
                              GalleryEntry(genome, fitness, entryName, description))
    /\ galRes' = [NoCall EXCEPT !.op = "AddFractal", !.name = name]
    /\ UNCHANGED <<genomeVars, engineVars, otherVars>>

GetAllFractals ==
    /\ galRes' = [NoCall EXCEPT !.op = "GetAllFractals", !.result = m_entries]
    /\ UNCHANGED <<m_entries, genomeVars, engineVars, otherVars>>

\* static_cast<size_t>(count): modulo 2^31, the widest the model checker's
\* integers allow (size_t is wider; only "larger than any size" matters)
SizeT(count) == IF count >= 0 THEN count ELSE 2147483647 + (count + 1)

\* mutant: the comparator a.fitness < b.fitness
SortedByFitness_Ascending(entries) ==
    LET n == Len(entries)
        perms == { p \in [1..n -> 1..n] : \A i, j \in 1..n : i # j => p[i] # p[j] }
    IN { [i \in 1..n |-> entries[p[i]]] :
           p \in { q \in perms :
                     \A i \in 1..n, j \in 1..n :
                        i < j => entries[q[i]].fitness <= entries[q[j]].fitness } }

\* Every order std::sort may leave `entries` in under the comparator
\* a.fitness > b.fitness: descending fitness, ties in any order.
SortedByFitness(entries) ==
    LET n == Len(entries)
        perms == { p \in [1..n -> 1..n] : \A i, j \in 1..n : i # j => p[i] # p[j] }
    IN { [i \in 1..n |-> entries[p[i]]] :
           p \in { q \in perms :
                     \A i \in 1..n, j \in 1..n :
                        i < j => entries[q[i]].fitness >= entries[q[j]].fitness } }

\* sorted.resize(count) when sorted.size() > static_cast<size_t>(count)
Truncate(sorted, count) ==
    IF Len(sorted) > SizeT(count) THEN SubSeq(sorted, 1, count) ELSE sorted

GetTopFractals(count) ==
    /\ \E sorted \in SortedByFitness(m_entries) :
          galRes' = [NoCall EXCEPT !.op = "GetTopFractals", !.count = count,
                                   !.result = Truncate(sorted, count)]
    /\ UNCHANGED <<m_entries, genomeVars, engineVars, otherVars>>

GalleryNext ==
    \/ \E in \in GalleryInputs, name \in GalleryNames :
          AddFractal(in[1], in[2], name, "")
    \/ GetAllFractals
    \/ \E count \in TopCounts : GetTopFractals(count)
-----------------------------------------------------------------------------
(* DeformableFractal: the escape-time evaluation, DeformableFractal.cpp.   *)
(* In this section a number is a whole unit, not a count of thousandths:   *)
(* the arithmetic of the configurations tried is then exact.  A floating-  *)
(* point value is a finite integer of magnitude at most Huge, +infinity,   *)
(* -infinity or NaN, with the IEEE 754 rules for the three.                *)

\* The greatest finite magnitude of the floating-point type in the model.
Huge == 1000

\* Largest BaseFractal::m_maxIterations tried.
MaxIterations == 3

PosInf == Huge + 1

NegInf == -(Huge + 1)

NaN == Huge + 2

IsInf(a) == a = PosInf \/ a = NegInf

IsFinite(a) == -Huge <= a /\ a <= Huge

\* a result beyond the finite range overflows to an infinity
Overflow(x) == IF x > Huge THEN PosInf ELSE IF x < -Huge THEN NegInf ELSE x

\* a + b
FAdd(a, b) ==
    IF a = NaN \/ b = NaN THEN NaN
    ELSE IF IsInf(a) /\ IsInf(b) THEN (IF a = b THEN a ELSE NaN)
    ELSE IF IsInf(a) THEN a
    ELSE IF IsInf(b) THEN b
    ELSE Overflow(a + b)

\* -a
FNeg(a) == IF a = NaN THEN NaN ELSE -a

\* a - b
FSub(a, b) == FAdd(a, FNeg(b))

\* a * b
FMul(a, b) ==
    IF a = NaN \/ b = NaN THEN NaN
    ELSE IF IsInf(a) \/ IsInf(b)
         THEN IF a = 0 \/ b = 0 THEN NaN
              ELSE IF (a > 0) = (b > 0) THEN PosInf ELSE NegInf
    ELSE Overflow(a * b)

\* a * 0.5f; the configurations tried keep finite arguments even
FHalf(a) == IF a = NaN \/ IsInf(a) THEN a ELSE a \div 2

\* std::abs
FAbs(a) == IF a = NaN THEN NaN ELSE IF a < 0 THEN -a ELSE a

\* a > b: false when either is NaN
FGreater(a, b) == a # NaN /\ b # NaN /\ a > b

Complex(r, i) == [real |-> r, imag |-> i]

\* Complex::operator+
CAdd(z, w) == Complex(FAdd(z.real, w.real), FAdd(z.imag, w.imag))

\* Complex::operator*(const Complex&)
CMul(z, w) ==
    Complex(FSub(FMul(z.real, w.real), FMul(z.imag, w.imag)),
            FAdd(FMul(z.real, w.imag), FMul(z.imag, w.real)))

\* Complex::operator*(double)
CScale(z, k) == Complex(FMul(z.real, k), FMul(z.imag, k))

\* Complex::MagnitudeSquared
MagnitudeSquared(z) == FAdd(FMul(z.real, z.real), FMul(z.imag, z.imag))

\* std::cos and std::sin, for the angle the configurations tried use
Cos(angle) == CASE angle = 0 -> 1

Sin(angle) == CASE angle = 0 -> 0

\* DeformableFractal::Rotate
Rotate(z, angle) ==
    LET c == Cos(angle)
        s == Sin(angle)
    IN Complex(FSub(FMul(c, z.real), FMul(s, z.imag)),
               FAdd(FMul(s, z.real), FMul(c, z.imag)))

\* DeformableFractal::ApplyFunction, for DeformFunction::ABS and for a
\* selector outside the enumerators (default: return z)
ApplyFunction(z, func) ==
    CASE func = "ABS"   -> Complex(FAbs(z.real), FAbs(z.imag))
      [] func = "COUNT" -> z

\* DeformableFractal::Deform
Deform(z, state, m_shift) ==
    LET rotated == Rotate(z, state.angle)
        scaled == CAdd(CScale(z, state.freq), Complex(FAdd(m_shift, state.phase), 0))
        transformed == ApplyFunction(scaled, state.function)
    IN CAdd(rotated, Complex(FHalf(transformed.real), FHalf(transformed.imag)))

DeformState(angle, freq, phase, function) ==
    [angle |-> angle, freq |-> freq, phase |-> phase, function |-> function]

\* the body of the for loop up to the test: the next z
NextZ(f, z) ==
    LET currentDeformMix == f.m_deformMix
        deformA == Deform(z, f.m_deformStateA, f.m_shift)
        deformB == Deform(z, f.m_deformStateB, f.m_shift)
        blended == CAdd(CScale(deformA, FSub(1, currentDeformMix)),
                        CScale(deformB, currentDeformMix))
    IN CAdd(CMul(blended, blended), f.m_juliaConstant)

\* mutant: the test is >=
Escapes_GreaterEqual(f, z) ==
    LET m == MagnitudeSquared(z) IN m # NaN /\ m >= f.m_escapeThreshold

\* if (z.MagnitudeSquared() > m_escapeThreshold)
Escapes(f, z) == FGreater(MagnitudeSquared(z), f.m_escapeThreshold)

\* the for loop of CalculateIterations, from iteration i with z
RECURSIVE CalculateIterationsLoop(_, _, _)
CalculateIterationsLoop(f, z, i) ==
    IF i < f.m_maxIterations
    THEN LET z2 == NextZ(f, z)
         IN IF Escapes(f, z2) THEN i ELSE CalculateIterationsLoop(f, z2, i + 1)
    ELSE f.m_maxIterations

\* DeformableFractal::CalculateIterations (breathing disabled)
CalculateIterations(f, point) == CalculateIterationsLoop(f, point, 0)

\* What CalculateSmooth returns: at an escape, the iteration i and z, from
\* which the float max(0, i + 1 - log2(log2(|z|))) is computed; otherwise
\* the float m_maxIterations.
SmoothResult(escaped, i, z) == [escaped |-> escaped, i |-> i, z |-> z]

\* the for loop of CalculateSmooth, from iteration i with z
RECURSIVE CalculateSmoothLoop(_, _, _)
CalculateSmoothLoop(f, z, i) ==
    IF i < f.m_maxIterations
    THEN LET z2 == NextZ(f, z)
         IN IF Escapes(f, z2) THEN SmoothResult(TRUE, i, z2)
            ELSE CalculateSmoothLoop(f, z2, i + 1)
    ELSE SmoothResult(FALSE, f.m_maxIterations, z)

\* DeformableFractal::CalculateSmooth (breathing disabled)
CalculateSmooth(f, point) == CalculateSmoothLoop(f, point, 0)

-----------------------------------------------------------------------------
(* SpecFractal: one evaluation of a point by a configured fractal.         *)

\* The configurations tried: no rotation, frequency 2, functions ABS and the
\* default branch, deformMix 0 and 1, the default escape threshold.
FractalConfigs ==
    { [m_juliaConstant   |-> Complex(c, 0),
       m_deformStateA    |-> DeformState(0, 2, 0, fa),
       m_deformStateB    |-> DeformState(0, 2, 2, "ABS"),
       m_deformMix       |-> mix,
       m_shift           |-> 0,
       m_maxIterations   |-> n,
       m_escapeThreshold |-> 4] :
        c \in {-2, -1, 0}, fa \in {"ABS", "COUNT"}, mix \in {0, 1},
        n \in 0..MaxIterations }

\* The points evaluated; squaring 2 * 20 leaves the finite range.
Points == { Complex(r, i) : r \in {-1, 0, 1, 20}, i \in {0, 20} }

\* no evaluation made yet; before is the fractal as it was when the call began
NoEval == [op |-> "none", point |-> Complex(0, 0), before |-> << >>,
           iterations |-> 0, smooth |-> SmoothResult(FALSE, 0, Complex(0, 0))]

FCalculateIterations ==
    /\ fracRes.op = "none"
    /\ \E point \in Points :
         fracRes' = [NoEval EXCEPT !.op = "CalculateIterations",
                                   !.point = point,
                                   !.before = fractal,
                                   !.iterations = CalculateIterations(fractal, point)]
    /\ UNCHANGED <<fractal, genomeVars, galleryVars, engineVars,
                   galleryThreadVars, pureVars>>

FCalculateSmooth ==
    /\ fracRes.op = "none"
    /\ \E point \in Points :
         fracRes' = [NoEval EXCEPT !.op = "CalculateSmooth",
                                   !.point = point,
                                   !.before = fractal,
                                   !.smooth = CalculateSmooth(fractal, point)]
    /\ UNCHANGED <<fractal, genomeVars, galleryVars, engineVars,
                   galleryThreadVars, pureVars>>

FractalNext ==
    \/ FCalculateIterations
    \/ FCalculateSmooth

-----------------------------------------------------------------------------
(* SpecGalleryThreads: the gallery called from several threads.  A call    *)
(* that takes m_entriesMutex is stepped as lock, body, unlock; GetCount,   *)
(* which takes no lock, as read and return.                                *)

\* Threads that call the gallery in the model.
MaxGalleryThreads == 2

GalleryThreadIds == 1..MaxGalleryThreads

LockedCalls == {"AddFractal", "GetAllFractals", "GetTopFractals"}

IdleCall == [pc |-> "idle", op |-> "none"]

\* std::lock_guard<std::mutex> lock(m_entriesMutex) of AddFractal,
\* GetAllFractals and GetTopFractals
TLock(t) ==
    /\ galThreads[t].pc = "idle"
    /\ m_entriesMutex = 0
    /\ m_entriesMutex' = t
    /\ \E op \in LockedCalls :
         galThreads' = [galThreads EXCEPT ![t] = [pc |-> "locked", op |-> op]]
    /\ UNCHANGED <<m_entries, galRes, genomeVars, engineVars, fractalVars,
                   pureVars>>

\* AddFractal after the lock: the entry is built and pushed
TAddFractal(t) ==
    /\ galThreads[t] = [pc |-> "locked", op |-> "AddFractal"]
    /\ Len(m_entries) < MaxEntries
    /\ \E in \in GalleryInputs :
         m_entries' = Append(m_entries,
                             GalleryEntry(in[1], in[2],
                                          GenerateUniqueName(m_entries, "Fractal"), ""))
    /\ galThreads' = [galThreads EXCEPT ![t].pc = "unlock"]
    /\ UNCHANGED <<m_entriesMutex, galRes, genomeVars, engineVars, fractalVars,
                   pureVars>>

\* GetAllFractals and GetTopFractals after the lock: m_entries is copied
TCopyEntries(t) ==
    /\ galThreads[t].pc = "locked"
    /\ galThreads[t].op \in {"GetAllFractals", "GetTopFractals"}
    /\ galThreads' = [galThreads EXCEPT ![t].pc = "unlock"]
    /\ UNCHANGED <<m_entriesMutex, m_entries, galRes, genomeVars, engineVars,
                   fractalVars, pureVars>>

\* the lock_guard is released and the call returns
TUnlock(t) ==
    /\ galThreads[t].pc = "unlock"
    /\ m_entriesMutex' = 0
    /\ galThreads' = [galThreads EXCEPT ![t] = IdleCall]
    /\ UNCHANGED <<m_entries, galRes, genomeVars, engineVars, fractalVars,
                   pureVars>>

\* GetCount: m_entries.size() is read, with no lock
TGetCount(t) ==
    /\ galThreads[t].pc = "idle"
    /\ galThreads' = [galThreads EXCEPT ![t] = [pc |-> "size", op |-> "GetCount"]]
    /\ UNCHANGED <<m_entriesMutex, m_entries, galRes, genomeVars, engineVars,
                   fractalVars, pureVars>>

TGetCountReturn(t) ==
    /\ galThreads[t].pc = "size"
    /\ galThreads' = [galThreads EXCEPT ![t] = IdleCall]
    /\ UNCHANGED <<m_entriesMutex, m_entries, galRes, genomeVars, engineVars,
                   fractalVars, pureVars>>

GalleryThreadsNext ==
    \E t \in GalleryThreadIds :
        \/ TLock(t)
        \/ TAddFractal(t)
        \/ TCopyEntries(t)
        \/ TUnlock(t)
        \/ TGetCount(t)
        \/ TGetCountReturn(t)

-----------------------------------------------------------------------------
(* GeneticEvolutionEngine: GeneticEvolutionEngine.cpp:313-491.             *)
(* The calling thread runs the public operations; each worker thread runs  *)
(* EvolutionLoop, one action per function it calls.  The worker's          *)
(* InitializeRandomPopulation is stepped per push_back.                    *)

\* Largest EvolutionParameters::populationSize tried.
MaxPopulation == 2

\* Largest EvolutionParameters::maxGenerations tried.
MaxGenerations == 2

\* Worker threads that can exist at once in the model.
MaxThreads == 2

\* TournamentSelection(int tournamentSize = 3)
TournamentSize == 3

\* UpdateStats: m_stats.bestFitness > 0.9f
HighFitness == 900

Threads == 1..MaxThreads

\* The configurations tried: elitePercentage 0.25, 0.5 and 1.5, the other
\* parameters at the defaults of EvolutionParameters.
ParamSets ==
    { [populationSize        |-> n,
       maxGenerations        |-> MaxGenerations,
       mutationRate          |-> 150,
       elitePercentage       |-> e,
       targetFitness         |-> 950,
       stagnationGenerations |-> 50] :
        n \in 0..MaxPopulation, e \in {250, 500, 1500} }

\* The values EvaluateFitness returns in the model: low, above the 0.9f of
\* UpdateStats, and above the default targetFitness.
FitnessVals == {500, 920, 960}

\* The random draws of the engine's Mutate and Crossover calls: the draws of
\* the first gene of DrawOrder are enumerated, with one normal draw.
EngineDraws ==
    { [n \in GeneNames |-> IF n \in DrawGenes(1) THEN d ELSE NeutralDraw] :
        d \in {NeutralDraw, [u |-> 0, n |-> 25000]} }

EnginePicks == PickVectors(1)

\* EvolutionStats (the members the modelled code writes)
EvolutionStats ==
    [currentGeneration |-> 0, bestFitness |-> 0, averageFitness |-> 0,
     stagnationCount |-> 0]

NoThread == [pc |-> "none", i |-> 0, parents |-> << >>]

NoRet == [op |-> "none", population |-> << >>, genome |-> FractalGenome,
          stats |-> EvolutionStats]

\* the genomes one iteration of the loop of InitializeRandomPopulation can push
InitialGenomes ==
    { [Mutate(FractalGenome, draws, 5000) EXCEPT !.generation = 0] :
        draws \in EngineDraws }

\* InitializeRandomPopulation run to completion: every population it can build
InitializeRandomPopulation ==
    [1..m_params.populationSize -> InitialGenomes]

RECURSIVE SumFitness(_)
SumFitness(pop) ==
    IF pop = << >> THEN 0 ELSE pop[1].fitness + SumFitness(Tail(pop))

\* static_cast<int>(m_params.populationSize * m_params.elitePercentage)
EliteCount == (m_params.populationSize * m_params.elitePercentage) \div 1000

\* mutant: the first candidate drawn is returned
TournamentSelection_FirstDraw(pop, draws) == draws[1]

\* TournamentSelection with the draws m_rng() % m_population.size() given
\* (1-based indices)
TournamentSelection(pop, draws) ==
    LET Pick(best, candidate) ==
            IF pop[candidate].fitness > pop[best].fitness THEN candidate ELSE best
        RECURSIVE Run(_, _)
        Run(best, k) ==
            IF k > TournamentSize THEN best ELSE Run(Pick(best, draws[k]), k + 1)
    IN Run(draws[1], 2)

\* every parents vector SelectParents can build
SelectParents(pop) ==
    LET numParents == m_params.populationSize \div 2
    IN { [k \in 1..numParents |-> TournamentSelection(pop, d[k])] :
           d \in [1..numParents -> [1..TournamentSize -> 1..Len(pop)]] }

\* the children one iteration of the while loop of GenerateOffspring can push
Children(pop, parents) ==
    { [Mutate(Crossover(pop[parents[a]], pop[parents[b]], picks),
              draws, m_params.mutationRate)
         EXCEPT !.generation = m_stats.currentGeneration + 1] :
        a \in 1..Len(parents), b \in 1..Len(parents),
        picks \in EnginePicks, draws \in EngineDraws }

\* every newPopulation GenerateOffspring can build from the sorted population
NewPopulations(sorted, parents) ==
    LET eliteCount == EliteCount
        nChildren == IF m_params.populationSize > eliteCount
                     THEN m_params.populationSize - eliteCount ELSE 0
    IN { SubSeq(sorted, 1, eliteCount) \o kids :
           kids \in [1..nChildren -> Children(sorted, parents)] }

-----------------------------------------------------------------------------
(* SpecOffspring: TournamentSelection, SelectParents and GenerateOffspring  *)
(* applied to an evaluated, sorted population, as the loop body does.       *)

\* Largest populationSize tried in SpecOffspring.
MaxOffspringPopulation == 4

\* populationSize 1 .. MaxOffspringPopulation with elitePercentage 0.25, 0.5
\* and 1.5
OffspringParams ==
    { [populationSize        |-> n,
       maxGenerations        |-> MaxGenerations,
       mutationRate          |-> 150,
       elitePercentage       |-> e,
       targetFitness         |-> 950,
       stagnationGenerations |-> 50] :
        n \in 1..MaxOffspringPopulation, e \in {250, 500, 1500} }

\* The populations of size n after EvaluatePopulation and UpdateStats: k
\* copies of one initial genome, then n - k of another, in descending order
\* of fitness (equal genes have equal fitness).
EvaluatedPopulations(n) ==
    LET first  == [Mutate(FractalGenome, [g \in GeneNames |-> NeutralDraw], 5000)
                      EXCEPT !.generation = 0]
        second == CHOOSE g \in InitialGenomes : g # first
        descending == { f \in FitnessVals \X FitnessVals : f[1] >= f[2] }
    IN { [i \in 1..n |-> IF i <= k THEN [first EXCEPT !.fitness = f[1]]
                                   ELSE [second EXCEPT !.fitness = f[2]]] :
           k \in 0..n, f \in descending }

\* no call made yet.  draws and index: the candidates of a tournament and the
\* index it returned; parents: the pool of SelectParents; before: the
\* population GenerateOffspring was called on; undefined: the undefined
\* behaviour the call ran into, if any.
NoOffspring ==
    [op |-> "none", draws |-> << >>, index |-> 0, parents |-> << >>,
     before |-> << >>, undefined |-> "no"]

\* one call of TournamentSelection()
OTournamentSelection ==
    /\ offRes.op = "none"
    /\ \E draws \in [1..TournamentSize -> 1..Len(m_population)] :
         offRes' = [NoOffspring EXCEPT
                       !.op = "TournamentSelection",
                       !.draws = draws,
                       !.index = TournamentSelection(m_population, draws)]
    /\ UNCHANGED <<genomeVars, galleryVars, engineVars, fractalVars,
                   galleryThreadVars, applyVars>>

\* SelectParents(parents)
OSelectParents ==
    /\ offRes.op = "none"
    /\ \E parents \in SelectParents(m_population) :
         offRes' = [NoOffspring EXCEPT !.op = "SelectParents",
                                       !.parents = parents]
    /\ UNCHANGED <<genomeVars, galleryVars, engineVars, fractalVars,
                   galleryThreadVars, applyVars>>

\* GenerateOffspring(parents), with the pool SelectParents has just built.
\* m_population[i] with i >= size (the elite copy) and m_rng() % 0 (the
\* parent draw from an empty pool) are undefined behaviour.
OGenerateOffspring ==
    /\ offRes.op = "SelectParents"
    /\ LET called == [offRes EXCEPT !.op = "GenerateOffspring",
                                    !.before = m_population]
       IN IF EliteCount > Len(m_population)
          THEN /\ offRes' = [called EXCEPT !.undefined = "elite index"]
               /\ UNCHANGED m_population
          ELSE IF m_params.populationSize > EliteCount /\ offRes.parents = << >>
          THEN /\ offRes' = [called EXCEPT !.undefined = "empty parent pool"]
               /\ UNCHANGED m_population
          ELSE /\ \E sorted \in SortedByFitness(m_population) :
                    /\ m_population' \in NewPopulations(sorted, offRes.parents)
                    /\ offRes' = [called EXCEPT !.before = sorted]
    /\ UNCHANGED <<m_params, m_running, m_paused, m_evolutionThread,
                   m_populationMutex, m_stats, threads, callerPc, callerRet,
                   fitnessMemo, crashed, callbackVars, lastCall,
                   genomeVars, galleryVars, fractalVars, galleryThreadVars,
                   applyVars>>

OffspringNext ==
    \/ OTournamentSelection
    \/ OSelectParents
    \/ OGenerateOffspring

-----------------------------------------------------------------------------
(* SpecApply: FractalGenome::ApplyToFractal and ExtractFromFractal on a    *)
(* DeformableFractal.  Gene values and the fractal's float fields are in   *)
(* thousandths; a DeformState's function is the enumerator's integer.      *)

\* DeformFunction::COUNT
DeformFunctionCount == 11

\* static_cast<int>(float): the fraction is discarded, towards zero
StaticCastInt(v) == IF v >= 0 THEN v \div 1000 ELSE -((-v) \div 1000)

\* a % b of two ints, b > 0: the result has the sign of a
IntRemainder(a, b) == IF a >= 0 THEN a % b ELSE -((-a) % b)

\* static_cast<float>(DeformFunction)
StaticCastFloat(function) == function * 1000

\* BaseFractal::SetParameter
SetParameter(m_parameters, name, value) ==
    [k \in (DOMAIN m_parameters) \cup {name} |->
        IF k = name THEN value ELSE m_parameters[k]]

\* A default-constructed DeformableFractal: the member initialisers of
\* BaseFractal and DeformableFractal and the constructor's assignments.
DeformableFractal ==
    [m_juliaConstant   |-> [real |-> -700, imag |-> 270],
     m_escapeThreshold |-> 4000,
     m_deformStateA    |-> [angle |-> 300, freq |-> 1200, phase |-> 0,
                            function |-> 0, edgeGlow |-> 1500,
                            edgeHueShift |-> 900],
     m_deformStateB    |-> [angle |-> -200, freq |-> 1800, phase |-> 500,
                            function |-> 1, edgeGlow |-> 1100,
                            edgeHueShift |-> 1300],
     m_functionBlend   |-> 500,
     m_deformMix       |-> 500,
     m_shift           |-> 0,
     m_parameters      |-> [k \in {"julia_real", "julia_imag", "function_blend",
                                   "deform_mix", "shift", "zoom", "offset_x",
                                   "offset_y"} |->
                               CASE k = "julia_real"     -> -700
                                 [] k = "julia_imag"     -> 270
                                 [] k = "function_blend" -> 500
                                 [] k = "deform_mix"     -> 500
                                 [] k = "shift"          -> 0
                                 [] k = "zoom"           -> 1000
                                 [] k = "offset_x"       -> 0
                                 [] k = "offset_y"       -> 0]]

\* FractalGenome::ApplyToFractal(fractal), with the setters it calls
ApplyToFractal(genome, f) ==
    LET g == genome.genes
        stateA == [angle        |-> g["angleA"].value,
                   freq         |-> g["freqA"].value,
                   phase        |-> g["phaseA"].value,
                   function     |-> IntRemainder(StaticCastInt(g["functionA"].value),
                                                 DeformFunctionCount),
                   edgeGlow     |-> g["edgeGlowA"].value,
                   edgeHueShift |-> g["edgeHueShiftA"].value]
        stateB == [angle        |-> g["angleB"].value,
                   freq         |-> g["freqB"].value,
                   phase        |-> g["phaseB"].value,
                   function     |-> IntRemainder(StaticCastInt(g["functionB"].value),
                                                 DeformFunctionCount),
                   edgeGlow     |-> g["edgeGlowB"].value,
                   edgeHueShift |-> g["edgeHueShiftB"].value]
        p1 == SetParameter(f.m_parameters, "julia_real", g["juliaReal"].value)
        p2 == SetParameter(p1, "julia_imag", g["juliaImag"].value)
        p3 == SetParameter(p2, "function_blend", g["functionBlend"].value)
        p4 == SetParameter(p3, "deform_mix", g["deformMix"].value)
        p5 == SetParameter(p4, "shift", g["shift"].value)
        p6 == SetParameter(p5, "edge_saturation", g["edgeSaturation"].value)
    IN  [m_juliaConstant   |-> [real |-> g["juliaReal"].value,
                                imag |-> g["juliaImag"].value],
         m_escapeThreshold |-> g["escapeThreshold"].value,
         m_deformStateA    |-> stateA,
         m_deformStateB    |-> stateB,
         m_functionBlend   |-> g["functionBlend"].value,
         m_deformMix       |-> g["deformMix"].value,
         m_shift           |-> g["shift"].value,
         m_parameters      |-> p6]

\* FractalGenome::ExtractFromFractal(fractal): the values it assigns; every
\* other member of the genome keeps what it had.
ExtractedValue(genome, f, name) ==
    CASE name = "juliaReal"       -> f.m_juliaConstant.real
      [] name = "juliaImag"       -> f.m_juliaConstant.imag
      [] name = "escapeThreshold" -> f.m_escapeThreshold
      [] name = "angleA"          -> f.m_deformStateA.angle
      [] name = "freqA"           -> f.m_deformStateA.freq
      [] name = "phaseA"          -> f.m_deformStateA.phase
      [] name = "functionA"       -> StaticCastFloat(f.m_deformStateA.function)
      [] name = "edgeGlowA"       -> f.m_deformStateA.edgeGlow
      [] name = "edgeHueShiftA"   -> f.m_deformStateA.edgeHueShift
      [] name = "angleB"          -> f.m_deformStateB.angle
      [] name = "freqB"           -> f.m_deformStateB.freq
      [] name = "phaseB"          -> f.m_deformStateB.phase
      [] name = "functionB"       -> StaticCastFloat(f.m_deformStateB.function)
      [] name = "edgeGlowB"       -> f.m_deformStateB.edgeGlow
      [] name = "edgeHueShiftB"   -> f.m_deformStateB.edgeHueShift
      [] name = "functionBlend"   -> f.m_functionBlend
      [] name = "deformMix"       -> f.m_deformMix
      [] name = "shift"           -> f.m_shift
      [] OTHER                    -> genome.genes[name].value

ExtractFromFractal(genome, f) ==
    [genome EXCEPT !.genes =
        [n \in GeneNames |->
            [genome.genes[n] EXCEPT !.value = ExtractedValue(genome, f, n)]]]

\* Values given to the function-selector genes: whole and fractional ones
\* inside the declared bounds [0, 10], and ones outside them.
FunctionValues == {-1000, 0, 2700, 10000, 10600, 12000}

\* Values given to edgeSaturation and to shift, inside their bounds.
SaturationValues == {1000, 1500}
ShiftValues == {0, -1500}

\* The genomes applied: the default genome with these values.
ApplyGenomes ==
    { [FractalGenome EXCEPT !.genes["functionA"].value = fa,
                            !.genes["functionB"].value = fb,
                            !.genes["edgeSaturation"].value = es,
                            !.genes["shift"].value = sh] :
        fa \in FunctionValues, fb \in FunctionValues,
        es \in SaturationValues, sh \in ShiftValues }

\* every gene of the genome lies within its declared bounds
WithinBounds(genome) ==
    \A n \in GeneNames :
        /\ genome.genes[n].min <= genome.genes[n].value
        /\ genome.genes[n].value <= genome.genes[n].max

\* applyRes before any call: G is the genome to apply, first and second are
\* two default-constructed fractals, H a default-constructed genome.
NoApply ==
    [step |-> "none", G |-> FractalGenome, first |-> DeformableFractal,
     H |-> FractalGenome, second |-> DeformableFractal]

\* G.ApplyToFractal(&first)
AApplyFirst ==
    /\ applyRes.step = "start"
    /\ applyRes' = [applyRes EXCEPT !.step = "applied",
                                    !.first = ApplyToFractal(applyRes.G, applyRes.first)]
    /\ UNCHANGED <<genomeVars, galleryVars, engineVars, fractalVars,
                   galleryThreadVars, offspringVars>>

\* H.ExtractFromFractal(&first)
AExtract ==
    /\ applyRes.step = "applied"
    /\ applyRes' = [applyRes EXCEPT !.step = "extracted",
                                    !.H = ExtractFromFractal(applyRes.H, applyRes.first)]
    /\ UNCHANGED <<genomeVars, galleryVars, engineVars, fractalVars,
                   galleryThreadVars, offspringVars>>

\* H.ApplyToFractal(&second)
AApplySecond ==
    /\ applyRes.step = "extracted"
    /\ applyRes' = [applyRes EXCEPT !.step = "reapplied",
                                    !.second = ApplyToFractal(applyRes.H, applyRes.second)]
    /\ UNCHANGED <<genomeVars, galleryVars, engineVars, fractalVars,
                   galleryThreadVars, offspringVars>>

ApplyNext == AApplyFirst \/ AExtract \/ AApplySecond

-----------------------------------------------------------------------------
(* The calling thread.                                                     *)

CallerReady == callerPc = "idle" /\ ~crashed

\* Initialize(seed): the population is rebuilt on the calling thread.  It is
\* called between runs, while no worker is in EvolutionLoop.
Initialize ==
    /\ CallerReady
    /\ \A t \in Threads : threads[t].pc \in {"none", "done"}
    /\ m_population' \in InitializeRandomPopulation
    /\ lastCall' = "Initialize"
    /\ UNCHANGED <<m_params, m_running, m_paused, m_evolutionThread,
                   m_populationMutex, m_stats, threads, callerPc, callerRet,
                   fitnessMemo, crashed, callbackVars, genomeVars, galleryVars, otherVars>>

\* mutant: no test of m_running
StartGuard_Always == TRUE

\* if (!m_running)
StartGuard == ~m_running

\* mutant: the worker is not waited for
JoinReturns_NoWait(t) == TRUE

\* join() returns once thread t has left EvolutionLoop
JoinReturns(t) == threads[t].pc = "done"

\* thread t is not running: it never started, or it finished and was joined
Joined(t) ==
    \/ threads[t].pc = "none"
    \/ threads[t].pc = "done" /\ m_evolutionThread # t

StartEvolution ==
    /\ CallerReady
    /\ lastCall' = IF StartGuard THEN "StartEvolution" ELSE "StartEvolution, no-op"
    /\ IF StartGuard
       THEN \E t \in Threads :
              /\ Joined(t)
              /\ \A u \in Threads : Joined(u) => t <= u
              /\ m_running' = TRUE
              /\ threads' = [threads EXCEPT ![t] = [NoThread EXCEPT !.pc = "start"]]
              /\ m_evolutionThread' = t
              \* assigning over a joinable std::thread calls std::terminate
              /\ crashed' = (m_evolutionThread > 0)
       ELSE UNCHANGED <<m_running, threads, m_evolutionThread, crashed>>
    /\ UNCHANGED <<m_params, m_population, m_paused, m_populationMutex, m_stats,
                   callerPc, callerRet, fitnessMemo, callbackVars, genomeVars, galleryVars, otherVars>>

\* StopEvolution up to the join: m_running = false
StopEvolution ==
    /\ CallerReady
    /\ m_running' = FALSE
    /\ callerPc' = "stop_join"
    /\ UNCHANGED <<m_params, m_population, m_paused, m_evolutionThread,
                   m_populationMutex, m_stats, threads, callerRet, fitnessMemo,
                   crashed, lastCall, callbackVars, genomeVars, galleryVars, otherVars>>

\* StopEvolution from the join to its return
StopEvolutionJoin ==
    /\ callerPc = "stop_join"
    /\ ~crashed
    /\ IF m_evolutionThread > 0
       THEN /\ JoinReturns(m_evolutionThread)
            /\ m_evolutionThread' = -1
       ELSE UNCHANGED m_evolutionThread
    /\ callerPc' = "idle"
    /\ lastCall' = "StopEvolution"
    /\ UNCHANGED <<m_params, m_population, m_running, m_paused, threads,
                   m_populationMutex, m_stats, callerRet, fitnessMemo, crashed,
                   callbackVars, genomeVars, galleryVars, otherVars>>

PauseEvolution ==
    /\ CallerReady
    /\ m_paused' = TRUE
    /\ UNCHANGED <<m_params, m_population, m_running, m_evolutionThread,
                   m_populationMutex, m_stats, threads, callerPc, callerRet,
                   fitnessMemo, crashed, lastCall, callbackVars, genomeVars, galleryVars, otherVars>>

ResumeEvolution ==
    /\ CallerReady
    /\ m_paused' = FALSE
    /\ UNCHANGED <<m_params, m_population, m_running, m_evolutionThread,
                   m_populationMutex, m_stats, threads, callerPc, callerRet,
                   fitnessMemo, crashed, lastCall, callbackVars, genomeVars, galleryVars, otherVars>>

\* std::max_element with a.fitness < b.fitness: the first of the greatest
MaxElement(pop) ==
    pop[CHOOSE i \in 1..Len(pop) :
            /\ \A j \in 1..Len(pop) : pop[j].fitness <= pop[i].fitness
            /\ \A j \in 1..(i - 1) : pop[j].fitness < pop[i].fitness]

\* GetCurrentGeneration: the lock is taken and the population copied
GetCurrentGeneration ==
    /\ CallerReady
    /\ m_populationMutex = "free"
    /\ m_populationMutex' = "caller"
    /\ callerRet' = [NoRet EXCEPT !.op = "GetCurrentGeneration",
                                  !.population = m_population]
    /\ callerPc' = "read_locked"
    /\ UNCHANGED <<m_params, m_population, m_running, m_paused,
                   m_evolutionThread, m_stats, threads, fitnessMemo, crashed,
                   lastCall, callbackVars, genomeVars, galleryVars, otherVars>>

\* GetBestIndividual: the lock is taken and the best genome copied
GetBestIndividual ==
    /\ CallerReady
    /\ m_populationMutex = "free"
    /\ m_populationMutex' = "caller"
    /\ callerRet' = [NoRet EXCEPT !.op = "GetBestIndividual",
                                  !.genome = IF m_population = << >>
                                             THEN FractalGenome
                                             ELSE MaxElement(m_population)]
    /\ callerPc' = "read_locked"
    /\ UNCHANGED <<m_params, m_population, m_running, m_paused,
                   m_evolutionThread, m_stats, threads, fitnessMemo, crashed,
                   lastCall, callbackVars, genomeVars, galleryVars, otherVars>>

\* the lock_guard of a read accessor is released and the accessor returns
ReadReturn ==
    /\ callerPc = "read_locked"
    /\ ~crashed
    /\ m_populationMutex' = "free"
    /\ callerRet' = NoRet
    /\ callerPc' = "idle"
    /\ UNCHANGED <<m_params, m_population, m_running, m_paused,
                   m_evolutionThread, m_stats, threads, fitnessMemo, crashed,
                   lastCall, callbackVars, genomeVars, galleryVars, otherVars>>

\* GetStats: m_stats is copied, without the lock
GetStats ==
    /\ CallerReady
    /\ callerRet' = [NoRet EXCEPT !.op = "GetStats", !.stats = m_stats]
    /\ callerPc' = "read_unlocked"
    /\ UNCHANGED <<m_params, m_population, m_running, m_paused,
                   m_evolutionThread, m_populationMutex, m_stats, threads,
                   fitnessMemo, crashed, lastCall, callbackVars, genomeVars, galleryVars, otherVars>>

GetStatsReturn ==
    /\ callerPc = "read_unlocked"
    /\ ~crashed
    /\ callerRet' = NoRet
    /\ callerPc' = "idle"
    /\ UNCHANGED <<m_params, m_population, m_running, m_paused,
                   m_evolutionThread, m_populationMutex, m_stats, threads,
                   fitnessMemo, crashed, lastCall, callbackVars, genomeVars, galleryVars, otherVars>>

-----------------------------------------------------------------------------
(* A worker thread t: EvolutionLoop.                                       *)

At(t, pc) == threads[t].pc = pc /\ ~crashed

Goto(t, pc) == threads' = [threads EXCEPT ![t].pc = pc]

\* A worker write that overlaps an accessor's read of the same member is a
\* data race, which the worker does nothing to exclude: the write either
\* goes through or the process traps.
PopulationRace == callerPc = "read_locked"

StatsRace == callerPc = "read_unlocked"

RaceOutcomes(race) == IF race THEN {FALSE, TRUE} ELSE {FALSE}

NoCallbacks ==
    [generations |-> << >>, reported |-> {}, invoked |-> FALSE, replaced |-> 0]

\* InitializeRandomPopulation: m_population.clear()
WInitClear(t) ==
    /\ At(t, "start")
    /\ m_population' = << >>
    /\ threads' = [threads EXCEPT ![t].pc = "push", ![t].i = 0]
    /\ crashed' \in RaceOutcomes(PopulationRace)
    /\ UNCHANGED <<m_params, m_running, m_paused, m_evolutionThread,
                   m_populationMutex, m_stats, callerPc, callerRet, fitnessMemo,
                   lastCall, callbackVars, genomeVars, galleryVars, otherVars>>

\* InitializeRandomPopulation: one iteration of the for loop, or its end
WInitPush(t) ==
    /\ At(t, "push")
    /\ IF threads[t].i < m_params.populationSize
       THEN /\ \E genome \in InitialGenomes :
                  m_population' = Append(m_population, genome)
            /\ threads' = [threads EXCEPT ![t].i = @ + 1]
            /\ crashed' \in RaceOutcomes(PopulationRace)
       ELSE /\ Goto(t, "top")
            /\ UNCHANGED <<m_population, crashed>>
    /\ UNCHANGED <<m_params, m_running, m_paused, m_evolutionThread,
                   m_populationMutex, m_stats, callerPc, callerRet, fitnessMemo,
                   lastCall, callbackVars, genomeVars, galleryVars, otherVars>>

\* mutant: the loop does not test currentGeneration
WhileCondition_IgnoresMax == m_running

\* mutant: the loop does not test m_running
WhileCondition_IgnoresRunning ==
    m_stats.currentGeneration < m_params.maxGenerations

\* m_running && m_stats.currentGeneration < m_params.maxGenerations
WhileCondition ==
    m_running /\ m_stats.currentGeneration < m_params.maxGenerations

\* while (WhileCondition) { if (m_paused) ...
WLoopTop(t) ==
    /\ At(t, "top")
    /\ IF WhileCondition
       THEN IF m_paused THEN Goto(t, "sleep") ELSE Goto(t, "evaluate")
       ELSE Goto(t, "done")
    /\ UNCHANGED <<m_params, m_population, m_running, m_paused,
                   m_evolutionThread, m_populationMutex, m_stats, callerPc,
                   callerRet, fitnessMemo, crashed, lastCall, callbackVars,
                   genomeVars, galleryVars, otherVars>>

\* mutant: after the sleep the loop body is entered without the tests
WSleep_SkipsTests(t) ==
    /\ At(t, "sleep")
    /\ Goto(t, "evaluate")
    /\ UNCHANGED <<m_params, m_population, m_running, m_paused,
                   m_evolutionThread, m_populationMutex, m_stats, callerPc,
                   callerRet, fitnessMemo, crashed, lastCall, callbackVars,
                   genomeVars, galleryVars, otherVars>>

\* std::this_thread::sleep_for(100ms); continue;
WSleep(t) ==
    /\ At(t, "sleep")
    /\ Goto(t, "top")
    /\ UNCHANGED <<m_params, m_population, m_running, m_paused,
                   m_evolutionThread, m_populationMutex, m_stats, callerPc,
                   callerRet, fitnessMemo, crashed, lastCall, callbackVars,
                   genomeVars, galleryVars, otherVars>>

\* EvaluatePopulation: EvaluateFitness is a function of the gene values; the
\* value of a gene vector is chosen when it is first evaluated
WEvaluatePopulation(t) ==
    /\ At(t, "evaluate")
    /\ LET seen(g) == \E p \in fitnessMemo : p[1] = g
           unseen == { m_population[i].genes : i \in 1..Len(m_population) }
                        \ { p[1] : p \in fitnessMemo }
       IN \E f \in [unseen -> FitnessVals] :
            LET EvaluateFitness(g) ==
                    IF g \in unseen THEN f[g]
                    ELSE (CHOOSE p \in fitnessMemo : p[1] = g)[2]
            IN /\ m_population' =
                     [i \in 1..Len(m_population) |->
                         [m_population[i] EXCEPT
                             !.fitness = EvaluateFitness(m_population[i].genes)]]
               /\ fitnessMemo' = fitnessMemo \cup { <<g, f[g]>> : g \in unseen }
    /\ Goto(t, "stats")
    /\ crashed' \in RaceOutcomes(PopulationRace /\ m_population # << >>)
    /\ UNCHANGED <<m_params, m_running, m_paused, m_evolutionThread,
                   m_populationMutex, m_stats, callerPc, callerRet, lastCall,
                   callbackVars, genomeVars, galleryVars, otherVars>>

\* UpdateStats
WUpdateStats(t) ==
    /\ At(t, "stats")
    /\ IF m_population = << >>
       THEN /\ cbLog' = [cbLog EXCEPT !.invoked = FALSE]
            /\ UNCHANGED <<m_population, m_stats, crashed>>
       ELSE \E sorted \in SortedByFitness(m_population) :
              /\ crashed' \in RaceOutcomes(PopulationRace \/ StatsRace)
              /\ m_population' = sorted
              /\ m_stats' = [m_stats EXCEPT
                                !.bestFitness = sorted[1].fitness,
                                !.averageFitness = SumFitness(sorted) \div Len(sorted)]
              /\ IF m_bestFoundCallback /\ sorted[1].fitness > HighFitness
                 THEN cbLog' = [cbLog EXCEPT
                                   !.reported = @ \cup {sorted[1].genes},
                                   !.invoked = TRUE]
                 ELSE cbLog' = [cbLog EXCEPT !.invoked = FALSE]
    /\ Goto(t, "check")
    /\ UNCHANGED <<m_params, m_running, m_paused, m_evolutionThread,
                   m_populationMutex, callerPc, callerRet, fitnessMemo,
                   lastCall, m_generationCallback, m_bestFoundCallback,
                   genomeVars, galleryVars, otherVars>>

\* mutant: the loop is never left by the break
BreakCondition_Never == FALSE

\* bestFitness >= targetFitness || stagnationCount >= stagnationGenerations
BreakCondition ==
    \/ m_stats.bestFitness >= m_params.targetFitness
    \/ m_stats.stagnationCount >= m_params.stagnationGenerations

\* if (BreakCondition) break;
WCheckBreak(t) ==
    /\ At(t, "check")
    /\ IF BreakCondition
       THEN Goto(t, "done")
       ELSE Goto(t, "select")
    /\ UNCHANGED <<m_params, m_population, m_running, m_paused,
                   m_evolutionThread, m_populationMutex, m_stats, callerPc,
                   callerRet, fitnessMemo, crashed, lastCall, callbackVars,
                   genomeVars, galleryVars, otherVars>>

\* SelectParents(parents); m_rng() % m_population.size() on an empty
\* population is a division by zero
WSelectParents(t) ==
    /\ At(t, "select")
    /\ IF m_population = << >> /\ m_params.populationSize \div 2 > 0
       THEN /\ crashed' = TRUE
            /\ UNCHANGED threads
       ELSE /\ \E parents \in SelectParents(m_population) :
                  threads' = [threads EXCEPT ![t].parents = parents,
                                             ![t].pc = "offspring"]
            /\ UNCHANGED crashed
    /\ UNCHANGED <<m_params, m_population, m_running, m_paused,
                   m_evolutionThread, m_populationMutex, m_stats, callerPc,
                   callerRet, fitnessMemo, lastCall, callbackVars,
                   genomeVars, galleryVars, otherVars>>

\* GenerateOffspring(parents).  Reading m_population[i] past its end and
\* m_rng() % parents.size() with no parents are undefined: the process is
\* taken to trap.
WGenerateOffspring(t) ==
    /\ At(t, "offspring")
    /\ LET nChildren == m_params.populationSize - EliteCount
           undefined ==
               \/ EliteCount > Len(m_population)
               \/ nChildren > 0 /\ threads[t].parents = << >>
               \/ nChildren > 0 /\ \E k \in 1..Len(threads[t].parents) :
                                       threads[t].parents[k] > Len(m_population)
       IN IF undefined
          THEN /\ crashed' = TRUE
               /\ UNCHANGED <<m_population, threads, cbLog>>
          ELSE /\ \E sorted \in SortedByFitness(m_population) :
                     m_population' \in NewPopulations(sorted, threads[t].parents)
               /\ cbLog' = [cbLog EXCEPT !.replaced = @ + 1]
               /\ threads' = [threads EXCEPT ![t].pc = "callback",
                                              ![t].parents = << >>]
               /\ crashed' \in RaceOutcomes(PopulationRace)
    /\ UNCHANGED <<m_params, m_running, m_paused, m_evolutionThread,
                   m_populationMutex, m_stats, callerPc, callerRet, fitnessMemo,
                   lastCall, m_generationCallback, m_bestFoundCallback,
                   genomeVars, galleryVars, otherVars>>

\* mutant: the iteration ends after the callback, without the increment
WGenerationCallback_SkipsIncrement(t) ==
    /\ At(t, "callback")
    /\ IF m_generationCallback
       THEN cbLog' = [cbLog EXCEPT
                         !.generations = Append(@, m_stats.currentGeneration)]
       ELSE UNCHANGED cbLog
    /\ Goto(t, "top")
    /\ UNCHANGED <<m_params, m_population, m_running, m_paused,
                   m_evolutionThread, m_populationMutex, m_stats, callerPc,
                   callerRet, fitnessMemo, crashed, lastCall,
                   m_generationCallback, m_bestFoundCallback,
                   genomeVars, galleryVars, otherVars>>

\* mutant: the callback is passed the index of the generation to come
WGenerationCallback_NextIndex(t) ==
    /\ At(t, "callback")
    /\ IF m_generationCallback
       THEN cbLog' = [cbLog EXCEPT
                         !.generations = Append(@, m_stats.currentGeneration + 1)]
       ELSE UNCHANGED cbLog
    /\ Goto(t, "increment")
    /\ UNCHANGED <<m_params, m_population, m_running, m_paused,
                   m_evolutionThread, m_populationMutex, m_stats, callerPc,
                   callerRet, fitnessMemo, crashed, lastCall,
                   m_generationCallback, m_bestFoundCallback,
                   genomeVars, galleryVars, otherVars>>

\* if (m_generationCallback) m_generationCallback(currentGeneration, m_stats);
WGenerationCallback(t) ==
    /\ At(t, "callback")
    /\ IF m_generationCallback
       THEN cbLog' = [cbLog EXCEPT
                         !.generations = Append(@, m_stats.currentGeneration)]
       ELSE UNCHANGED cbLog
    /\ Goto(t, "increment")
    /\ UNCHANGED <<m_params, m_population, m_running, m_paused,
                   m_evolutionThread, m_populationMutex, m_stats, callerPc,
                   callerRet, fitnessMemo, crashed, lastCall,
                   m_generationCallback, m_bestFoundCallback,
                   genomeVars, galleryVars, otherVars>>

\* m_stats.currentGeneration++;
WIncrement(t) ==
    /\ At(t, "increment")
    /\ m_stats' = [m_stats EXCEPT !.currentGeneration = @ + 1]
    /\ Goto(t, "top")
    /\ crashed' \in RaceOutcomes(StatsRace)
    /\ UNCHANGED <<m_params, m_population, m_running, m_paused,
                   m_evolutionThread, m_populationMutex, callerPc,
                   callerRet, fitnessMemo, lastCall, callbackVars,
                   genomeVars, galleryVars, otherVars>>

EvolutionLoop(t) ==
    \/ WInitClear(t)
    \/ WInitPush(t)
    \/ WLoopTop(t)
    \/ WSleep(t)
    \/ WEvaluatePopulation(t)
    \/ WUpdateStats(t)
    \/ WCheckBreak(t)
    \/ WSelectParents(t)
    \/ WGenerateOffspring(t)
    \/ WGenerationCallback(t)
    \/ WIncrement(t)

\* the state after the constructor, for each configuration tried
Init ==
    /\ m_params \in ParamSets
    /\ m_population = << >>
    /\ m_running = FALSE
    /\ m_paused = FALSE
    /\ m_evolutionThread = 0
    /\ m_populationMutex = "free"
    /\ m_stats = EvolutionStats
    /\ threads = [t \in Threads |-> NoThread]
    /\ callerPc = "idle"
    /\ callerRet = NoRet
    /\ fitnessMemo = {}
    /\ crashed = FALSE
    /\ m_generationCallback = TRUE
    /\ m_bestFoundCallback = TRUE
    /\ cbLog = NoCallbacks
    /\ lastCall = "none"
    /\ fractal = CHOOSE f \in FractalConfigs : TRUE
    /\ fracRes = NoEval
    /\ m_entriesMutex = 0
    /\ galThreads = [t \in GalleryThreadIds |-> IdleCall]
    /\ applyRes = NoApply
    /\ offRes = NoOffspring
    /\ gA = FractalGenome
    /\ gB = FractalGenome
    /\ gRes = NoResult
    /\ m_entries = << >>
    /\ galRes = NoCall

Next ==
    \/ Initialize
    \/ StartEvolution
    \/ StopEvolution
    \/ StopEvolutionJoin
    \/ PauseEvolution
    \/ ResumeEvolution
    \/ GetCurrentGeneration
    \/ GetBestIndividual
    \/ ReadReturn
    \/ GetStats
    \/ GetStatsReturn
    \/ \E t \in Threads : EvolutionLoop(t)

-----------------------------------------------------------------------------
(* Specifications.                                                         *)

Spec == Init /\ [][Next]_vars

\* The control calls and the worker, without the accessors (which write
\* nothing the loop reads).
ControlNext ==
    \/ Initialize
    \/ StartEvolution
    \/ StopEvolution
    \/ StopEvolutionJoin
    \/ PauseEvolution
    \/ ResumeEvolution
    \/ \E t \in Threads : EvolutionLoop(t)

\* The engine under fair scheduling: the worker thread, once created, keeps
\* being scheduled until EvolutionLoop returns (its callbacks return), and a
\* join() whose thread has finished returns.
SpecFair ==
    /\ Init
    /\ [][ControlNext]_vars
    /\ WF_vars(\E t \in Threads : EvolutionLoop(t))
    /\ WF_vars(StopEvolutionJoin)

GenomeInit ==
    /\ gA \in InputGenomes(GenomeDrawGenes, {"min", "default", "max"}, {FALSE})
    /\ gB \in InputGenomes(GenomeDrawGenes, {"default", "max"}, {FALSE, TRUE})
    /\ gRes = NoResult
    /\ m_entries = << >>
    /\ galRes = NoCall
    /\ m_params = CHOOSE p \in ParamSets : TRUE
    /\ m_population = << >>
    /\ m_running = FALSE
    /\ m_paused = FALSE
    /\ m_evolutionThread = 0
    /\ m_populationMutex = "free"
    /\ m_stats = EvolutionStats
    /\ threads = [t \in Threads |-> NoThread]
    /\ callerPc = "idle"
    /\ callerRet = NoRet
    /\ fitnessMemo = {}
    /\ crashed = FALSE
    /\ m_generationCallback = FALSE
    /\ m_bestFoundCallback = FALSE
    /\ cbLog = NoCallbacks
    /\ lastCall = "none"
    /\ fractal = CHOOSE f \in FractalConfigs : TRUE
    /\ fracRes = NoEval
    /\ m_entriesMutex = 0
    /\ galThreads = [t \in GalleryThreadIds |-> IdleCall]
    /\ applyRes = NoApply
    /\ offRes = NoOffspring

SpecGenome == GenomeInit /\ [][GenomeNext]_vars

\* the constructor leaves m_entries empty
GalleryInit ==
    /\ m_entries = << >>
    /\ galRes = NoCall
    /\ gA = FractalGenome
    /\ gB = FractalGenome
    /\ gRes = NoResult
    /\ m_params = CHOOSE p \in ParamSets : TRUE
    /\ m_population = << >>
    /\ m_running = FALSE
    /\ m_paused = FALSE
    /\ m_evolutionThread = 0
    /\ m_populationMutex = "free"
    /\ m_stats = EvolutionStats
    /\ threads = [t \in Threads |-> NoThread]
    /\ callerPc = "idle"
    /\ callerRet = NoRet
    /\ fitnessMemo = {}
    /\ crashed = FALSE
    /\ m_generationCallback = FALSE
    /\ m_bestFoundCallback = FALSE
    /\ cbLog = NoCallbacks
    /\ lastCall = "none"
    /\ fractal = CHOOSE f \in FractalConfigs : TRUE
    /\ fracRes = NoEval
    /\ m_entriesMutex = 0
    /\ galThreads = [t \in GalleryThreadIds |-> IdleCall]
    /\ applyRes = NoApply
    /\ offRes = NoOffspring

SpecGallery == GalleryInit /\ [][GalleryNext]_vars

\* a configured fractal, nothing evaluated yet
FractalInit ==
    /\ m_entries = << >>
    /\ galRes = NoCall
    /\ gA = FractalGenome
    /\ gB = FractalGenome
    /\ gRes = NoResult
    /\ m_params = CHOOSE p \in ParamSets : TRUE
    /\ m_population = << >>
    /\ m_running = FALSE
    /\ m_paused = FALSE
    /\ m_evolutionThread = 0
    /\ m_populationMutex = "free"
    /\ m_stats = EvolutionStats
    /\ threads = [t \in Threads |-> NoThread]
    /\ callerPc = "idle"
    /\ callerRet = NoRet
    /\ fitnessMemo = {}
    /\ crashed = FALSE
    /\ m_generationCallback = FALSE
    /\ m_bestFoundCallback = FALSE
    /\ cbLog = NoCallbacks
    /\ lastCall = "none"
    /\ fractal \in FractalConfigs
    /\ fracRes = NoEval
    /\ m_entriesMutex = 0
    /\ galThreads = [t \in GalleryThreadIds |-> IdleCall]
    /\ applyRes = NoApply
    /\ offRes = NoOffspring

SpecFractal == FractalInit /\ [][FractalNext]_vars

\* an empty gallery, no call in progress
GalleryThreadsInit ==
    /\ m_entries = << >>
    /\ galRes = NoCall
    /\ gA = FractalGenome
    /\ gB = FractalGenome
    /\ gRes = NoResult
    /\ m_params = CHOOSE p \in ParamSets : TRUE
    /\ m_population = << >>
    /\ m_running = FALSE
    /\ m_paused = FALSE
    /\ m_evolutionThread = 0
    /\ m_populationMutex = "free"
    /\ m_stats = EvolutionStats
    /\ threads = [t \in Threads |-> NoThread]
    /\ callerPc = "idle"
    /\ callerRet = NoRet
    /\ fitnessMemo = {}
    /\ crashed = FALSE
    /\ m_generationCallback = FALSE
    /\ m_bestFoundCallback = FALSE
    /\ cbLog = NoCallbacks
    /\ lastCall = "none"
    /\ fractal = CHOOSE f \in FractalConfigs : TRUE
    /\ fracRes = NoEval
    /\ m_entriesMutex = 0
    /\ galThreads = [t \in GalleryThreadIds |-> IdleCall]
    /\ applyRes = NoApply
    /\ offRes = NoOffspring

SpecGalleryThreads == GalleryThreadsInit /\ [][GalleryThreadsNext]_vars

OffspringInit ==
    /\ m_params \in OffspringParams
    /\ m_population \in EvaluatedPopulations(m_params.populationSize)
    /\ offRes = NoOffspring
    /\ m_stats = EvolutionStats
    /\ m_entries = << >>
    /\ galRes = NoCall
    /\ gA = FractalGenome
    /\ gB = FractalGenome
    /\ gRes = NoResult
    /\ m_running = FALSE
    /\ m_paused = FALSE
    /\ m_evolutionThread = 0
    /\ m_populationMutex = "free"
    /\ threads = [t \in Threads |-> NoThread]
    /\ callerPc = "idle"
    /\ callerRet = NoRet
    /\ fitnessMemo = {}
    /\ crashed = FALSE
    /\ m_generationCallback = FALSE
    /\ m_bestFoundCallback = FALSE
    /\ cbLog = NoCallbacks
    /\ lastCall = "none"
    /\ fractal = CHOOSE f \in FractalConfigs : TRUE
    /\ fracRes = NoEval
    /\ m_entriesMutex = 0
    /\ galThreads = [t \in GalleryThreadIds |-> IdleCall]
    /\ applyRes = NoApply

SpecOffspring == OffspringInit /\ [][OffspringNext]_vars

ApplyInit ==
    /\ m_params = CHOOSE p \in ParamSets : TRUE
    /\ m_population = << >>
    /\ offRes = NoOffspring
    /\ m_stats = EvolutionStats
    /\ m_entries = << >>
    /\ galRes = NoCall
    /\ gA = FractalGenome
    /\ gB = FractalGenome
    /\ gRes = NoResult
    /\ m_running = FALSE
    /\ m_paused = FALSE
    /\ m_evolutionThread = 0
    /\ m_populationMutex = "free"
    /\ threads = [t \in Threads |-> NoThread]
    /\ callerPc = "idle"
    /\ callerRet = NoRet
    /\ fitnessMemo = {}
    /\ crashed = FALSE
    /\ m_generationCallback = FALSE
    /\ m_bestFoundCallback = FALSE
    /\ cbLog = NoCallbacks
    /\ lastCall = "none"
    /\ fractal = CHOOSE f \in FractalConfigs : TRUE
    /\ fracRes = NoEval
    /\ m_entriesMutex = 0
    /\ galThreads = [t \in GalleryThreadIds |-> IdleCall]
    /\ applyRes \in { [NoApply EXCEPT !.step = "start", !.G = g] : g \in ApplyGenomes }

SpecApply == ApplyInit /\ [][ApplyNext]_vars

-----------------------------------------------------------------------------
(* Claims about the evolution engine (Spec).                               *)

InEvolutionLoop(t) == threads[t].pc \notin {"none", "done"}

WorkerCount == Cardinality({ t \in Threads : ~Joined(t) })

\* C1: once StopEvolution has returned, and until StartEvolution or
\* Initialize is called again, the worker has left EvolutionLoop and has been
\* joined, and no step changes m_population (the fitness values of its
\* genomes included) or m_stats.
C1_NoMutationAfterStop ==
    [][ /\ lastCall' = "StopEvolution" =>
             /\ m_evolutionThread' <= 0
             /\ \A t \in Threads : ~InEvolutionLoop(t)'
        /\ (lastCall = "StopEvolution" /\ lastCall' = "StopEvolution") =>
             /\ m_population' = m_population
             /\ m_stats' = m_stats ]_vars

\* C1 witness: StopEvolution has returned from joining a worker that was
\* paused in the middle of a run, after its first generation
C1_Witness ==
    /\ lastCall = "StopEvolution"
    /\ m_evolutionThread = -1
    /\ m_paused
    /\ m_stats.currentGeneration = 1
    /\ m_stats.currentGeneration < m_params.maxGenerations
    /\ m_stats.bestFitness < m_params.targetFitness
    /\ m_population # << >>

\* C2 (as stated): what GetCurrentGeneration returns is a complete
\* generation, populationSize genomes (or the empty population of an engine
\* that has built none yet), never a population in the middle of being
\* replaced.
C2_ReadsCompleteGeneration ==
    callerRet.op = "GetCurrentGeneration" =>
        Len(callerRet.population) \in {0, m_params.populationSize}

\* C3: StartEvolution called while a worker exists creates no worker and
\* changes nothing; StopEvolution called while no worker exists changes no
\* population or statistics and does not fail; and at most one worker exists
\* at any time.
C3_MisuseIsNoOp ==
    [][ /\ (StartEvolution /\ \E t \in Threads : ~Joined(t)) =>
             UNCHANGED <<m_params, m_population, m_running, m_paused,
                         m_evolutionThread, m_populationMutex, m_stats,
                         threads, crashed>>
        /\ ((StopEvolution \/ StopEvolutionJoin) /\ \A t \in Threads : Joined(t)) =>
             /\ UNCHANGED <<m_population, m_stats, threads>>
             /\ ~crashed'
        /\ WorkerCount' <= 1 ]_vars

\* C3 witness: StartEvolution has returned without effect while the worker
\* was in EvolutionLoop
C3_Witness ==
    /\ lastCall = "StartEvolution, no-op"
    /\ \E t \in Threads : InEvolutionLoop(t) /\ threads[t].pc # "start"
    /\ WorkerCount = 1
    /\ ~crashed

\* the genomes of greatest fitness of a population
BestOf(pop) ==
    { i \in 1..Len(pop) : \A j \in 1..Len(pop) : pop[j].fitness <= pop[i].fitness }

SameGeneValues(g, h) ==
    \A n \in GeneNames : g.genes[n].value = h.genes[n].value

\* C4 (as stated): with elitePercentage > 0 and populationSize >= 1, every
\* GenerateOffspring that completes leaves in the new generation a genome
\* with the gene values of a best-fitness genome of the generation it
\* replaced.
C4_ElitePreserved ==
    [][ \A t \in Threads :
          ( /\ threads[t].pc = "offspring"
            /\ threads'[t].pc = "callback"
            /\ m_params.elitePercentage > 0
            /\ m_params.populationSize >= 1 ) =>
          \E i \in BestOf(m_population) :
             \E j \in 1..Len(m_population') :
                SameGeneValues(m_population'[j], m_population[i]) ]_vars

\* C11 (as stated): with populationSize <= 0 no generation is ever
\* committed: the loop body is never run, no generation callback is made and
\* currentGeneration stays 0.
C11_MalformedRejected ==
    m_params.populationSize <= 0 =>
        /\ \A t \in Threads : threads[t].pc \in {"none", "start", "push", "top", "done"}
        /\ cbLog.generations = << >>
        /\ m_stats.currentGeneration = 0

\* the worker has seen m_paused set, or is about to test it while it is set
PauseObserved(t) ==
    \/ threads[t].pc = "sleep"
    \/ threads[t].pc = "top" /\ m_paused

C16_StopHonoured ==
    /\ [][ \A t \in Threads :
             (callerPc = "stop_join" /\ m_evolutionThread = t) =>
                /\ threads[t].pc = "top" => threads'[t].pc \in {"top", "done"}
                /\ threads[t].pc = "sleep" => threads'[t].pc \in {"sleep", "top"}
                /\ m_stats.currentGeneration < m_stats'.currentGeneration =>
                      threads'[t].pc = "top" ]_vars
    /\ callerPc = "stop_join" ~> (callerPc = "idle" \/ crashed)

\* C16 witness: StopEvolution was called while the engine was paused, and the
\* worker has left the loop on that request, before maxGenerations and
\* without the break
C16_Witness ==
    /\ callerPc = "stop_join"
    /\ m_paused
    /\ ~m_running
    /\ \E t \in Threads : m_evolutionThread = t /\ threads[t].pc = "done"
    /\ m_stats.currentGeneration = 1
    /\ m_stats.currentGeneration < m_params.maxGenerations
    /\ m_stats.bestFitness < m_params.targetFitness

\* C17: the replacement of the population by GenerateOffspring, the generation
\* callback and the increment of currentGeneration go together: outside the
\* three steps that end an iteration, currentGeneration is the number of
\* replacements and the number of callbacks made; between them the
\* replacement, then the callback, is one ahead.
C17_GenerationsCommittedWhole ==
    LET at(pc) == \E t \in Threads : threads[t].pc = pc
    IN  /\ ~at("callback") /\ ~at("increment") =>
              /\ cbLog.replaced = m_stats.currentGeneration
              /\ Len(cbLog.generations) = m_stats.currentGeneration
        /\ at("callback") =>
              /\ cbLog.replaced = m_stats.currentGeneration + 1
              /\ Len(cbLog.generations) = m_stats.currentGeneration
        /\ at("increment") =>
              /\ cbLog.replaced = m_stats.currentGeneration + 1
              /\ Len(cbLog.generations) = m_stats.currentGeneration + 1

\* C17 witness: the worker is back at the top of the loop after two whole
\* generations
C17_Witness ==
    /\ \E t \in Threads : threads[t].pc = "top"
    /\ m_stats.currentGeneration = 2
    /\ cbLog.replaced = 2
    /\ cbLog.generations = <<0, 1>>

\* C18: currentGeneration never exceeds maxGenerations, no more than
\* maxGenerations generations are committed, and under fair scheduling, if
\* the engine is eventually no longer paused, a worker in EvolutionLoop
\* leaves it (or the run has ended in undefined behaviour).
C18_LoopBounded ==
    /\ [](/\ m_stats.currentGeneration <= m_params.maxGenerations
          /\ cbLog.replaced <= m_params.maxGenerations)
    /\ (<>[]~m_paused) =>
          \A t \in Threads :
             InEvolutionLoop(t) ~> (~InEvolutionLoop(t) \/ crashed)

\* C18 witness: the worker has left the loop by the while test, still
\* Running, with maxGenerations generations committed
C18_Witness ==
    /\ m_running
    /\ \E t \in Threads : m_evolutionThread = t /\ threads[t].pc = "done"
    /\ m_stats.currentGeneration = m_params.maxGenerations
    /\ cbLog.replaced = m_params.maxGenerations
    /\ m_stats.bestFitness < m_params.targetFitness

\* what C24 says of every invocation of the generation callback but for the
\* pause: it is made by the current worker, not yet joined, from the
\* callback statement, after GenerateOffspring has replaced the population
\* and before the increment, with the index of that generation
CallbackInOrder ==
    cbLog.generations' # cbLog.generations =>
        \E t \in Threads :
            /\ m_evolutionThread = t
            /\ threads[t].pc = "callback" /\ threads'[t].pc = "increment"
            /\ cbLog.generations' =
                  Append(cbLog.generations, m_stats.currentGeneration)
            /\ cbLog.replaced = m_stats.currentGeneration + 1
            /\ m_stats' = m_stats /\ m_population' = m_population

\* the indices passed so far are 0, 1, 2, ... and every completed generation
\* has had its invocation
CallbackIndices ==
    /\ cbLog.generations = [i \in 1..Len(cbLog.generations) |-> i - 1]
    /\ Len(cbLog.generations) \in
          {m_stats.currentGeneration, m_stats.currentGeneration + 1}
    /\ (\A t \in Threads : threads[t].pc \notin {"callback", "increment"}) =>
          Len(cbLog.generations) = m_stats.currentGeneration

\* C24 (as stated): the generation callback is invoked once per completed
\* generation, after the replacement and before the increment, with the
\* indices 0, 1, 2, ..., never after StopEvolution has returned and never
\* while the engine is paused.
C24_Original ==
    /\ []CallbackIndices
    /\ [][ /\ CallbackInOrder
           /\ cbLog.generations' # cbLog.generations => ~m_paused ]_vars

\* C24 (amended): as stated, except that the pause is the one the worker has
\* observed: the callback is never invoked from the pause wait, while a
\* generation in progress when PauseEvolution is called still ends with its
\* invocation.
C24_CallbackOncePerGeneration ==
    /\ []CallbackIndices
    /\ [][ /\ CallbackInOrder
           /\ cbLog.generations' # cbLog.generations =>
                 \A t \in Threads : m_evolutionThread = t => ~PauseObserved(t)
           /\ \A t \in Threads :
                 PauseObserved(t) => threads'[t].pc # "callback" ]_vars

\* C24 witness: the second invocation has just been made, the engine having
\* been paused during that generation
C24_Witness ==
    /\ \E t \in Threads : m_evolutionThread = t /\ threads[t].pc = "increment"
    /\ m_paused
    /\ cbLog.generations = <<0, 1>>
    /\ m_stats.currentGeneration = 1
    /\ cbLog.replaced = 2

\* C25 (as stated): the best-found callback is invoked at the statistics
\* update at which a genome's fitness first exceeds 0.9, and not again for a
\* genome it was already invoked with.
C25_BestFoundOnce ==
    [][ \A t \in Threads :
          (threads[t].pc = "stats" /\ threads'[t].pc = "check"
              /\ m_population' # << >>) =>
            LET best == m_population'[1]
            IN /\ (best.fitness > 900 /\ best.genes \notin cbLog.reported) =>
                     /\ cbLog'.invoked
                     /\ best.genes \in cbLog'.reported
               /\ best.genes \in cbLog.reported => ~cbLog'.invoked ]_vars

\* C28 (as stated): once the worker has left the loop on its own, IsRunning()
\* is false, and a StartEvolution that follows starts a new worker.
C28_IsRunningReflectsWorker ==
    /\ [](\A t \in Threads :
            (/\ m_evolutionThread = t
             /\ threads[t].pc = "done"
             /\ callerPc = "idle"
             /\ lastCall \in {"StartEvolution", "StartEvolution, no-op"}) =>
                ~m_running)
    /\ [][ \A t \in Threads :
             (/\ m_evolutionThread = t
              /\ threads[t].pc = "done"
              /\ lastCall \in {"StartEvolution", "StartEvolution, no-op"}
              /\ lastCall' # lastCall
              /\ lastCall' \in {"StartEvolution", "StartEvolution, no-op"}) =>
                 \E u \in Threads : threads'[u].pc = "start" ]_vars

\* C29 (as stated): the worker starts from the population Initialize built,
\* without discarding or rebuilding it, and StartEvolution after Initialize
\* starts from currentGeneration 0.
C29_InitializedPopulationKept ==
    [][ /\ \A t \in Threads :
             (threads[t].pc \in {"start", "push"} /\ threads'[t] # threads[t]) =>
                m_population' = m_population
        /\ (lastCall = "Initialize" /\ lastCall' = "StartEvolution") =>
              m_stats'.currentGeneration = 0 ]_vars

\* C19 (as stated): a statistics update that finds the best fitness not
\* improved over the recorded best increments stagnationCount, and one that
\* finds it improved resets stagnationCount to 0.
C19_StagnationCounted ==
    [][ \A t \in Threads :
          (threads[t].pc = "stats" /\ threads'[t].pc = "check"
              /\ m_population # << >>) =>
            m_stats'.stagnationCount =
               IF m_stats'.bestFitness > m_stats.bestFitness
               THEN 0 ELSE m_stats.stagnationCount + 1 ]_vars

-----------------------------------------------------------------------------
(* Claims about the genome operations (SpecGenome).                        *)

InBounds(genome) ==
    \A n \in GeneNames :
        /\ genome.genes[n].min <= genome.genes[n].value
        /\ genome.genes[n].value <= genome.genes[n].max

C6_CrossoverInherits ==
    gRes.op = "Crossover" =>
        /\ \A n \in GeneNames :
              /\ gRes.genome.genes[n].value
                    \in {gRes.p1.genes[n].value, gRes.p2.genes[n].value}
              /\ 2 * gRes.genome.genes[n].mutationRate
                    = gRes.p1.genes[n].mutationRate + gRes.p2.genes[n].mutationRate
        /\ gRes.p1 = gRes.p2 =>
              \A n \in GeneNames :
                  /\ gRes.genome.genes[n].value = gRes.p1.genes[n].value
                  /\ gRes.genome.genes[n].mutationRate = gRes.p1.genes[n].mutationRate

\* C6 witness: a self-crossover of a non-default genome in which a draw chose
\* the second parent's gene, and a crossover of parents with different rates.
C6_Witness ==
    /\ gRes.op = "Crossover"
    /\ \/ /\ gRes.p1 = gRes.p2
          /\ gRes.p1 # FractalGenome
          /\ \E n \in GeneNames : gRes.picks[n] < 500
       \/ \E n \in GeneNames :
              /\ gRes.p1.genes[n].mutationRate # gRes.p2.genes[n].mutationRate
              /\ gRes.p1.genes[n].value # gRes.p2.genes[n].value
              /\ gRes.genome.genes[n].value = gRes.p2.genes[n].value

StructuralGenes ==
    { "juliaReal", "juliaImag", "escapeThreshold",
      "angleA", "freqA", "phaseA", "functionA",
      "angleB", "freqB", "phaseB", "functionB" }

\* C7: CalculateDistance(A, A) = 0, CalculateDistance(A, B) =
\* CalculateDistance(B, A), and the distance is 0 exactly when A and B have
\* equal values on the julia constant, the escape threshold and both deform
\* states' angle, freq, phase and function.
C7_DistanceSymmetricL1 ==
    gRes.op = "CalculateDistance" =>
        /\ gRes.p1 = gRes.p2 => gRes.distance = 0
        /\ gRes.distance = CalculateDistance(gRes.p2, gRes.p1)
        /\ gRes.distance = 0 <=>
              \A n \in StructuralGenes :
                  gRes.p1.genes[n].value = gRes.p2.genes[n].value

\* C7 witness: two genomes that differ on a gene the distance skips and agree
\* on the structural genes, at distance 0.
C7_Witness ==
    /\ gRes.op = "CalculateDistance"
    /\ gRes.distance = 0
    /\ \E n \in GeneNames \ StructuralGenes :
          gRes.p1.genes[n].value # gRes.p2.genes[n].value

-----------------------------------------------------------------------------
(* Claims about the gallery (SpecGallery).                                 *)

\* C8: no two entries of the gallery have the same name, after any sequence
\* of AddFractal calls with empty or explicitly supplied names.
C8_NamesUnique ==
    \A i, j \in 1..Len(m_entries) :
        i # j => m_entries[i].name # m_entries[j].name

\* The name "Fractal" when free, else "Fractal_k" for the least k >= 1 whose
\* name is free.
ExpectedGeneratedName(entries) ==
    IF ~NameTaken(entries, "Fractal") THEN "Fractal"
    ELSE LET free == { k \in 1..(Len(entries) + 1) :
                         ~NameTaken(entries, "Fractal_" \o ToString(k)) }
             k == CHOOSE x \in free : \A y \in free : x <= y
         IN "Fractal_" \o ToString(k)

\* C9: an AddFractal with an empty name appends one entry after the existing
\* ones (insertion order kept), named by the base string or the base string
\* with the least numeric suffix that no existing entry has, so the name
\* collides with no existing entry and two such calls give different names;
\* GetAllFractals returns the entries in insertion order.
C9_GeneratedNameFresh ==
    [][ /\ (galRes'.op = "AddFractal" /\ galRes'.name = "" /\ m_entries' # m_entries) =>
            /\ Len(m_entries') = Len(m_entries) + 1
            /\ SubSeq(m_entries', 1, Len(m_entries)) = m_entries
            /\ m_entries'[Len(m_entries')].name = ExpectedGeneratedName(m_entries)
            /\ ~NameTaken(m_entries, m_entries'[Len(m_entries')].name)
        /\ (galRes'.op = "GetAllFractals") => galRes'.result = m_entries
      ]_vars

\* C9 witness: two entries added with an empty name after an entry that
\* holds the first suffixed name: "Fractal_1", "Fractal", "Fractal_2".
C9_Witness ==
    /\ galRes.op = "AddFractal"
    /\ galRes.name = ""
    /\ Len(m_entries) = 3
    /\ m_entries[1].name = "Fractal_1"
    /\ m_entries[2].name = "Fractal"
    /\ m_entries[3].name = "Fractal_2"

IsSortedDescending(seq) ==
    \A i, j \in 1..Len(seq) : i < j => seq[i].fitness >= seq[j].fitness

\* The number of indices of seq holding the entry e.
Occurrences(seq, e) == Cardinality({ i \in 1..Len(seq) : seq[i] = e })

\* result holds entries of the gallery (none more often than the gallery
\* does), and every entry left out has a fitness no greater than any returned.
IsTopOf(result, entries) ==
    /\ \A i \in 1..Len(result) :
          Occurrences(result, result[i]) <= Occurrences(entries, result[i])
    /\ \A i \in 1..Len(result), j \in 1..Len(entries) :
          Occurrences(result, entries[j]) < Occurrences(entries, entries[j])
              => result[i].fitness >= entries[j].fitness

\* C10 as stated: for every integer count the result of GetTopFractals has at
\* most count entries, is sorted by descending fitness and is the top of the
\* gallery.
C10_Original ==
    galRes.op = "GetTopFractals" =>
        /\ Len(galRes.result) <= galRes.count
        /\ IsSortedDescending(galRes.result)
        /\ IsTopOf(galRes.result, m_entries)

\* C10 amended: for every count >= 0 the result has min(count, size) entries
\* and for a negative count it has all of them; it is sorted by descending
\* fitness, every returned entry has a fitness >= every entry not returned,
\* and the call leaves m_entries unchanged.
C10_TopSortedTruncated ==
    [][ (galRes'.op = "GetTopFractals" /\ galRes' # galRes) =>
            /\ m_entries' = m_entries
            /\ Len(galRes'.result) =
                  IF galRes'.count >= 0 /\ galRes'.count < Len(m_entries)
                  THEN galRes'.count ELSE Len(m_entries)
            /\ IsSortedDescending(galRes'.result)
            /\ IsTopOf(galRes'.result, m_entries)
      ]_vars

\* C10 witness: a call that truncated a gallery of three entries, stored in
\* ascending order of fitness, to its two best.
C10_Witness ==
    /\ galRes.op = "GetTopFractals"
    /\ galRes.count = 2
    /\ Len(m_entries) = 3
    /\ Len(galRes.result) = 2
    /\ m_entries[1].fitness < m_entries[3].fitness
    /\ galRes.result[1].fitness > m_entries[1].fitness

-----------------------------------------------------------------------------
(* Claims about the escape-time evaluation (SpecFractal).                  *)

\* the values of z after the updates of iterations 0 .. n-1, when the loop
\* is not left before
RECURSIVE OrbitSeq(_, _, _)
OrbitSeq(f, point, n) ==
    IF n = 0
    THEN << >>
    ELSE LET prev == OrbitSeq(f, point, n - 1)
             z == IF n = 1 THEN point ELSE prev[n - 1]
         IN Append(prev, NextZ(f, z))

\* z after the update of iteration i
Orbit(f, point, i) == OrbitSeq(f, point, i + 1)[i + 1]

Iterations(f) == 0..(f.m_maxIterations - 1)

\* the iterations at which magnitudeSquared(z) > escapeThreshold
EscapeIterations(f, point) ==
    { i \in Iterations(f) :
        LET m == MagnitudeSquared(Orbit(f, point, i))
        IN m # NaN /\ m > f.m_escapeThreshold }

\* the iterations at which z is NaN or infinite in a component
NonFiniteIterations(f, point) ==
    { i \in Iterations(f) :
        LET z == Orbit(f, point, i)
        IN ~IsFinite(z.real) \/ ~IsFinite(z.imag) }

Least(S) == CHOOSE i \in S : \A j \in S : i <= j

\* C12 (as stated): when z is non-finite at some iteration, CalculateIterations
\* and CalculateSmooth stop at the first iteration at which z is non-finite
\* or beyond the threshold, and report an escape there.
C12_NonFiniteEscapes ==
    LET stops == NonFiniteIterations(fractal, fracRes.point)
                    \cup EscapeIterations(fractal, fracRes.point)
    IN NonFiniteIterations(fractal, fracRes.point) # {} =>
         /\ fracRes.op = "CalculateIterations" =>
                fracRes.iterations = Least(stops)
         /\ fracRes.op = "CalculateSmooth" =>
                fracRes.smooth.escaped /\ fracRes.smooth.i = Least(stops)

\* what C13 says of the value returned for the point evaluated
LeastEscapeReturned ==
    fracRes.op = "CalculateIterations" =>
        /\ fracRes.iterations =
              IF EscapeIterations(fractal, fracRes.point) = {}
              THEN fractal.m_maxIterations
              ELSE Least(EscapeIterations(fractal, fracRes.point))
        /\ 0 <= fracRes.iterations
        /\ fracRes.iterations <= fractal.m_maxIterations

\* C13: CalculateIterations returns the least i in [0, maxIterations) with
\* magnitudeSquared(z) > escapeThreshold after the update of iteration i,
\* maxIterations when there is none, a value in [0, maxIterations] in both
\* cases, and leaves the configuration of the fractal as it was.
C13_LeastEscapeIteration ==
    /\ LeastEscapeReturned
    /\ fracRes.op = "CalculateIterations" => fractal = fracRes.before

\* C13 witness: an escape at an iteration after the first, the orbit having
\* passed through a magnitude equal to the threshold
C13_Witness ==
    /\ fracRes.op = "CalculateIterations"
    /\ fracRes.iterations > 0
    /\ fracRes.iterations < fractal.m_maxIterations
    /\ MagnitudeSquared(Orbit(fractal, fracRes.point, 0)) = fractal.m_escapeThreshold

-----------------------------------------------------------------------------
(* Claims about the gallery called from several threads                    *)
(* (SpecGalleryThreads).                                                   *)

\* C14 (as stated): no thread reads the entry list while another thread is
\* inside AddFractal, between taking the mutex and releasing it.
C14_ReadsExcludeAddFractal ==
    \A t \in GalleryThreadIds, u \in GalleryThreadIds :
        (galThreads[t].pc = "size" /\ u # t) =>
            ~(galThreads[u].op = "AddFractal" /\ galThreads[u].pc \in {"locked", "unlock"})

-----------------------------------------------------------------------------
(* Claims about selection and GenerateOffspring (SpecOffspring).           *)

\* C21: TournamentSelection draws TournamentSize indices of the population
\* and returns one of them, an index of the population, whose fitness is
\* the greatest among the candidates drawn; SelectParents builds a pool of
\* exactly populationSize / 2 indices of the population.
C21_TournamentSelectsFittest ==
    /\ offRes.op = "TournamentSelection" =>
          /\ DOMAIN offRes.draws = 1..3
          /\ offRes.index \in 1..m_params.populationSize
          /\ \E k \in DOMAIN offRes.draws : offRes.draws[k] = offRes.index
          /\ \A k \in DOMAIN offRes.draws :
                m_population[offRes.draws[k]].fitness
                   <= m_population[offRes.index].fitness
    /\ offRes.op = "SelectParents" =>
          /\ Len(offRes.parents) = m_params.populationSize \div 2
          /\ \A k \in 1..Len(offRes.parents) :
                offRes.parents[k] \in 1..m_params.populationSize

\* C21 witness: a tournament among three different genomes of a population
\* of four, won by the candidate drawn last
C21_Witness ==
    /\ offRes.op = "TournamentSelection"
    /\ m_params.populationSize = 4
    /\ offRes.draws = <<3, 4, 2>>
    /\ offRes.index = 2
    /\ m_population[2].fitness > m_population[3].fitness

\* C22 (as stated): GenerateOffspring never reads an index outside the
\* current population, and the population it leaves holds exactly
\* populationSize genomes, for every populationSize and elitePercentage.
C22_PopulationSizeFixed ==
    offRes.op = "GenerateOffspring" =>
        /\ offRes.undefined # "elite index"
        /\ offRes.undefined = "no" =>
              Len(m_population) = m_params.populationSize

\* k is populationSize * elitePercentage rounded to an integer (either
\* neighbour when the product lies halfway)
IsRounded(k) ==
    LET x == m_params.populationSize * m_params.elitePercentage
        d == IF 1000 * k >= x THEN 1000 * k - x ELSE x - 1000 * k
    IN 2 * d <= 1000

\* C23 (as stated): the new generation starts with round(populationSize *
\* elitePercentage) top genomes of the sorted generation, unchanged, and the
\* rest are children of two members of the parent pool, crossed over,
\* mutated and tagged currentGeneration + 1.
C23_EliteRoundedChildrenBred ==
    (/\ offRes.op = "GenerateOffspring"
     /\ offRes.undefined = "no"
     /\ m_params.elitePercentage <= 1000) =>
        \E k \in 0..m_params.populationSize :
            /\ IsRounded(k)
            /\ Len(m_population) = m_params.populationSize
            /\ \A i \in 1..k : m_population[i] = offRes.before[i]
            /\ \A i \in (k + 1)..m_params.populationSize :
                  /\ m_population[i] \in Children(offRes.before, offRes.parents)
                  /\ m_population[i].generation = m_stats.currentGeneration + 1

\* C30 (as stated): whenever GenerateOffspring has a child to produce, the
\* parent pool is not empty, no parent draw divides by zero, and every index
\* of the pool is an index of the population.
C30_ParentPoolNonEmpty ==
    (/\ offRes.op = "GenerateOffspring"
     /\ EliteCount < m_params.populationSize) =>
        /\ offRes.parents # << >>
        /\ offRes.undefined # "empty parent pool"
        /\ \A k \in 1..Len(offRes.parents) :
              offRes.parents[k] \in 1..Len(offRes.before)

-----------------------------------------------------------------------------
(* Claims about ApplyToFractal and ExtractFromFractal (SpecApply).         *)

\* std::round of a value in thousandths: to the nearest integer, halves away
\* from zero
RoundToInt(v) == IF v >= 0 THEN (v + 500) \div 1000 ELSE -((500 - v) \div 1000)

\* C26: ApplyToFractal resolves each function-selector gene as
\* round(value) mod 11, and the index written into DeformState A and B is in
\* 0..10 for every gene value, fractional and out-of-bounds ones included.
C26_FunctionIndexRounded ==
    applyRes.step \in {"applied", "extracted", "reapplied"} =>
        /\ applyRes.first.m_deformStateA.function =
               RoundToInt(applyRes.G.genes["functionA"].value) % DeformFunctionCount
        /\ applyRes.first.m_deformStateB.function =
               RoundToInt(applyRes.G.genes["functionB"].value) % DeformFunctionCount
        /\ applyRes.first.m_deformStateA.function \in 0..(DeformFunctionCount - 1)
        /\ applyRes.first.m_deformStateB.function \in 0..(DeformFunctionCount - 1)

\* C27: ExtractFromFractal is the exact inverse of ApplyToFractal: for every
\* genome G whose genes are within bounds, applying G to a fractal and
\* extracting into H gives H the value of G for every gene, and applying H to
\* a second fractal yields the configuration that applying G yielded.
C27_ExtractInvertsApply ==
    WithinBounds(applyRes.G) =>
        /\ applyRes.step \in {"extracted", "reapplied"} =>
               \A n \in GeneNames :
                   applyRes.H.genes[n].value = applyRes.G.genes[n].value
        /\ applyRes.step = "reapplied" => applyRes.second = applyRes.first

====
